---- MODULE Spec2Model ----
(***************************************************************************)
(* The real-time conversation engine of sarvamziya: the telephony media    *)
(* stream handler (MediaStreamHandler) with its session registry, the     *)
(* recognizer event handlers, the reply pipeline (language model,         *)
(* synthesis, outbound framing) and the interruption path.                 *)
(*                                                                         *)
(* JavaScript runs one handler at a time; a handler yields only at an      *)
(* await.  Every action below is therefore one handler run from its start  *)
(* (or from the resumption of an await) to its next await or its end.      *)
(***************************************************************************)
EXTENDS Integers, Sequences, FiniteSets, Bags, TLC

(***************************************************************************)
(* Bounds of the model.                                                    *)
(***************************************************************************)
MaxConns == 2      \* transport connections accepted (handleConnection calls)
MaxSessions == 2   \* createSession calls over the whole run
MaxFinals == 2     \* non-blank final transcripts over the whole run
MaxVad == 2        \* end-of-speech voice-activity markers over the whole run
MaxBytes == 330    \* length of the audio buffers handed to the framer alone
MaxHeader == 4     \* length of the audio buffers handed to detectAudioFormat

(***************************************************************************)
(* Program constants.                                                      *)
(***************************************************************************)
SignificanceThreshold == 3   \* transcript.length > 3
chunkSize == 214             \* base64 characters per outbound media frame
BIAS == 132                  \* 0x84, added to the magnitude by encodeMuLaw
CLIP == 32635                \* the magnitude encodeMuLaw clips to

(***************************************************************************)
(* Texts.  A text is a sequence of tokens.  Recognizer transcripts are     *)
(* spelled character by character, because the handler trims and measures  *)
(* them; agent-side texts are opaque to the handler and are one token.     *)
(***************************************************************************)
RECURSIVE TrimStart(_)
TrimStart(s) ==
    IF s = <<>> THEN s
    ELSE IF Head(s) = " " THEN TrimStart(Tail(s)) ELSE s

RECURSIVE TrimEnd(_)
TrimEnd(s) ==
    IF s = <<>> THEN s
    ELSE IF s[Len(s)] = " " THEN TrimEnd(SubSeq(s, 1, Len(s) - 1)) ELSE s

\* String.prototype.trim
Trim(s) == TrimEnd(TrimStart(s))

\* The transcripts the recognizer delivers in this model.
InterimTexts ==
    { <<>>,
      <<" ", " ", " ", " ">>,
      <<"y", "e", "s">>,
      <<"w", "a", "i", "t">> }
FinalTexts ==
    { <<>>,
      <<" ", " ", " ", " ">>,
      <<"h", "e", "l", "l", "o">> }

\* transcriptData: has = FALSE is a message without channel.alternatives[0].transcript
TranscriptData ==
    { d \in [has : BOOLEAN, transcript : InterimTexts \cup FinalTexts,
             is_final : BOOLEAN] :
        /\ ~d.has => d.transcript = <<>>
        /\ d.transcript \in (IF d.is_final THEN FinalTexts ELSE InterimTexts) }

\* !transcript?.trim()
IsBlank(d) == ~d.has \/ Trim(d.transcript) = <<>>

Greeting == <<"Hello! How can I help you today?">>
Apology == <<"I apologize, I'm having trouble processing that.">>
LLMTexts == { <<"Hi there">> }

\* How llmService.generateContent ends: with a response text, or with an error.
LLMResults ==
    { [ok |-> TRUE, text |-> x] : x \in LLMTexts } \cup { [ok |-> FALSE, text |-> <<>>] }
DefaultPrompt == "You are a helpful AI assistant."
DefaultVoice == "21m00Tcm4TlvDq8ikWAM"

\* Audio buffers the synthesis provider returns, by their length in bytes.
AudioBytes == {160}

\* Buffer.toString("base64").length
Base64Len(bytes) == 4 * ((bytes + 2) \div 3)

\* An audio buffer of n bytes.
AudioBuffer(n) == [i \in 1..n |-> (i * 37) % 256]

\* Buffer.toString("base64"): every three bytes give four characters, each
\* written as its six-bit value; 64 is the padding character "=".
Base64(buf) ==
    LET n == Len(buf)
        byte(i) == IF i <= n THEN buf[i] ELSE 0
        char(j) ==
            LET g == (j - 1) \div 4
                b1 == byte(3 * g + 1)
                b2 == byte(3 * g + 2)
                b3 == byte(3 * g + 3)
            IN  CASE (j - 1) % 4 = 0 -> b1 \div 4
                  [] (j - 1) % 4 = 1 -> (b1 % 4) * 16 + b2 \div 16
                  [] (j - 1) % 4 = 2 ->
                        IF 3 * g + 2 > n THEN 64 ELSE (b2 % 16) * 4 + b3 \div 64
                  [] OTHER -> IF 3 * g + 3 > n THEN 64 ELSE b3 % 64
    IN  [j \in 1..Base64Len(n) |-> char(j)]

(***************************************************************************)
(* Identifiers.                                                            *)
(***************************************************************************)
CallIds == {"CA1", "CA2"}
NoId == "undefined"          \* a start event with neither callId nor callSid
StreamSids == {"MZ1", NoId}  \* data.start.streamSid, possibly missing


Keys == CallIds \cup {NoId}

VARIABLES
    sessions,       \* the registry: call identifier -> session object (0: absent)
    objs,           \* the session objects ever created, by object number
    stt,            \* the recognition stream of each session object
    conns,          \* per connection: the closure variables callId and session,
                    \* the socket state, the marks the peer has still to echo
    starts,         \* start handlers suspended in getAgentById
    greetTimers,    \* pending 500 ms greeting timers
    silenceTimers,  \* pending 1500 ms silence timers: the handle and the
                    \* session object whose silenceTimer field received it
    vadCount,       \* silence timer handles handed out so far
    tasks,          \* outstanding language-model and synthesis calls (a bag)
    last,           \* the handler that ran last and what it put on the wire
    browser,        \* the state of DeepgramBrowserHandler (its own registry)
    env,            \* the scenario: what the environment may do in this run
    framer,         \* sendAudioToTwilio on its own: the buffer it is handed and
                    \* the frames it put on the socket
    codec,          \* sarvamTTS from the provider's audio on: the buffer, the
                    \* format detected and the conversion of it
    mulaw,          \* encodeMuLaw on its own: the sample and the byte returned
    tts,            \* one call of generateTTS: its options, the environment
                    \* and the providers it invoked
    campaign        \* CampaignService: the campaign's rows, activeCampaigns
                    \* and the startCampaign and processCampaign calls under way

vars == <<sessions, objs, stt, conns, starts, greetTimers, silenceTimers,
          vadCount, tasks, last, browser, env, framer, codec, mulaw,
                   tts, campaign>>

\* The program state as one record; a handler maps it to the state it leaves.
World ==
    [sessions |-> sessions, objs |-> objs, stt |-> stt, conns |-> conns,
     starts |-> starts, greetTimers |-> greetTimers,
     silenceTimers |-> silenceTimers, vadCount |-> vadCount, tasks |-> tasks,
     last |-> last]

\* What is recorded of the handler that ran last: its name, the connection and
\* the session object it worked on, the session object endSession removed, the
\* messages that went out on the socket, whether it appended a turn to the
\* context of a session that endSession had removed before, and whether the
\* agent turn it appended answers a later user turn than one whose
\* language-model call is still outstanding, the pending silence timer that
\* it cancelled (0: none), and of the reply whose synthesis it resumed the
\* kind, whether handleInterruption had run during the synthesis, and whether
\* the session had moved past the request when the model's text arrived.
Ran(op, n, o, out) ==
    [op |-> op, conn |-> n, session |-> o, ended |-> 0, out |-> out,
     lateAppend |-> FALSE, overtook |-> FALSE, cancelled |-> 0,
     kind |-> "none", hit |-> FALSE, stale |-> FALSE]

(***************************************************************************)
(* Helpers on the state.                                                   *)
(***************************************************************************)
RemoveAt(s, i) == SubSeq(s, 1, i - 1) \o SubSeq(s, i + 1, Len(s))

Min(a, b) == IF a < b THEN a ELSE b

\* A variant of slice that counts the start from one; C19 does not hold of it.
slice_FromOne(str, from, to) == SubSeq(str, from + 2, Min(to, Len(str)))

\* String.prototype.slice(from, to) with 0 <= from <= to
slice(str, from, to) == SubSeq(str, from + 1, Min(to, Len(str)))

\* clearTimeout(handle) on the pending silence timers; clearing a timer that
\* has fired, or null, does nothing
clearTimeout(timers, handle) == { t \in timers : t.handle # handle }

\* the handle, when its timer is pending, else 0
Pending(timers, handle) ==
    IF \E t \in timers : t.handle = handle THEN handle ELSE 0

\* ws.send on the socket of connection n: the messages go out only while the
\* socket is open.
Wire(cs, n, msgs) == IF cs[n].ws = "open" THEN msgs ELSE <<>>

\* A mark that went out is echoed by the peer later.
Send(cs, n, msgs) ==
    [cs EXCEPT ![n].marks =
        @ + Len(SelectSeq(Wire(cs, n, msgs), LAMBDA m : m.ev = "mark"))]

\* createSession: the new session object
NewSession(callId, ws) ==
    [ callId |-> callId,
      context |-> <<>>,
      sttStream |-> 0,
      agentPrompt |-> DefaultPrompt,
      agentVoiceId |-> DefaultVoice,
      ws |-> ws,
      streamSid |-> NoId,
      isReady |-> FALSE,
      audioQueue |-> <<>>,
      isAISpeaking |-> FALSE,
      currentAudioChunks |-> <<>>,
      userSpeechDetected |-> FALSE,
      interimTranscript |-> <<>>,
      silenceTimer |-> 0,
      conversationBuffer |-> <<>>,
      ended |-> FALSE,     \* history: endSession has removed this object
      tripped |-> FALSE,   \* history: interrupted since its last reply started
      greeted |-> 0,       \* history: greetings started on this object
      afterDestroy |-> FALSE,  \* history: created after endSession had removed
                               \* a session of the same call identifier
      finals |-> 0,        \* history: final transcripts accepted on this object
      playing |-> FALSE ]  \* history: a frame of the reply started last went
                           \* out, and no mark or interruption was handled since

\* appendToContext
appendToContext(s, text, role) ==
    [s EXCEPT !.context = Append(@, [role |-> role, text |-> text])]

\* The messages the handler puts on the socket, for a reply of kind k (greeting
\* or reply).  late: endSession had removed the session before the message was
\* sent.  hit: handleInterruption had run while the reply's synthesis was pending.
MediaMsg(s, k, hit, off, len) ==
    [ev |-> "media", streamSid |-> s.streamSid, kind |-> k, off |-> off,
     len |-> len, late |-> s.ended, hit |-> hit]
MarkMsg(s, k, hit) ==
    [ev |-> "mark", streamSid |-> s.streamSid, kind |-> k, off |-> 0,
     len |-> 0, late |-> s.ended, hit |-> hit]
ClearMsg(s) ==
    [ev |-> "clear", streamSid |-> s.streamSid, kind |-> "none", off |-> 0,
     len |-> 0, late |-> s.ended, hit |-> FALSE]

\* The loop of sendAudioToTwilio: the frames of a base64 string of length n,
\* from offset i on.
RECURSIVE Frames(_, _, _, _, _)
Frames(s, k, hit, n, i) ==
    IF i >= n THEN <<>>
    ELSE <<MediaMsg(s, k, hit, i, Min(chunkSize, n - i))>>
         \o Frames(s, k, hit, n, i + chunkSize)

\* An outstanding call: await is "llm" (callLLM) or "synth" (synthesizeTTS).
\* turn: for callLLM, the length of the context it was handed, which is the
\* position of the user turn it answers.  hit: handleInterruption has run
\* while the call was outstanding.  stale: for synthesizeTTS of a reply, the
\* session had moved past the request when callLLM returned.
\* request: for callLLM, what generateContent was handed.
NoRequest == [contents |-> <<>>, persona |-> ""]

Task(await, o, k, text, hit) ==
    [await |-> await, session |-> o, kind |-> k, text |-> text, hit |-> hit,
     turn |-> 0, stale |-> FALSE, request |-> NoRequest]

\* A variant of callLLM that hands over the latest turn alone; C30 does not
\* hold of it.
llmRequest_LastTurnOnly(s) ==
    [contents |-> IF s.context = <<>> THEN <<>>
                  ELSE <<s.context[Len(s.context)]>>,
     config |-> [systemInstruction |-> s.agentPrompt]]

\* callLLM(session) up to the await: the argument of generateContent (lines
\* 324-328; DeepgramBrowserHandler.js 258-262)
llmRequest(s) ==
    [contents |-> s.context,
     config |-> [systemInstruction |-> s.agentPrompt]]

\* llmService.generateContent(request): the collaborator generates from the
\* ordered turns and the persona text it is handed when it is called.
generateContent(request) ==
    [contents |-> request.contents,
     persona |-> request.config.systemInstruction]

AddTask(B, t) == B (+) SetToBag({t})
DelTask(B, t) == B (-) SetToBag({t})

\* Final transcripts accepted so far, over all session objects.
NumFinals(os) ==
    LET n[i \in 0..Len(os)] == IF i = 0 THEN 0 ELSE n[i - 1] + os[i].finals
    IN  n[Len(os)]

(***************************************************************************)
(* Garbage.  A connection's closure is alive while its socket is not       *)
(* closed or a timer, a recognizer listener or a suspended start handler   *)
(* still refers to it; a session object is alive while the registry, a     *)
(* live closure or an outstanding call refers to it.  The program cannot   *)
(* read what is not alive any more, so the fields of a dead object are     *)
(* reset; its history fields are kept.                                     *)
(***************************************************************************)
ConnLive(W, n) ==
    \/ W.conns[n].ws # "closed"
    \/ \E t \in W.greetTimers : t.conn = n
    \/ \E k \in 1..Len(W.stt) : W.stt[k].conn = n /\ W.stt[k].listening
    \/ \E i \in 1..Len(W.starts) : W.starts[i].conn = n

ObjLive(W, o) ==
    \/ \E c \in Keys : W.sessions[c] = o
    \/ \E t \in BagToSet(W.tasks) : t.session = o
    \/ \E n \in 1..Len(W.conns) : W.conns[n].session = o /\ ConnLive(W, n)

Collect(W) ==
    [W EXCEPT
       !.objs = [o \in 1..Len(W.objs) |->
                   IF ObjLive(W, o) THEN W.objs[o]
                   ELSE [NewSession(W.objs[o].callId, W.objs[o].ws) EXCEPT
                           !.ended = W.objs[o].ended,
                           !.greeted = W.objs[o].greeted,
                           !.afterDestroy = W.objs[o].afterDestroy,
                           !.finals = W.objs[o].finals]],
       !.conns = [n \in 1..Len(W.conns) |->
                    IF ConnLive(W, n) THEN W.conns[n]
                    ELSE [callId |-> NoId, session |-> 0, ws |-> "closed",
                          marks |-> 0]]]

\* The step to the state W a handler leaves.
Becomes(W) ==
    \E N \in {Collect(W)} :
    /\ sessions' = N.sessions
    /\ objs' = N.objs
    /\ stt' = N.stt
    /\ conns' = N.conns
    /\ starts' = N.starts
    /\ greetTimers' = N.greetTimers
    /\ silenceTimers' = N.silenceTimers
    /\ vadCount' = N.vadCount
    /\ tasks' = N.tasks
    /\ last' = N.last
    /\ UNCHANGED <<browser, env, framer, codec, mulaw,
                   tts, campaign>>

(***************************************************************************)
(* handleInterruption(session), on session object o.  A reply is hit when  *)
(* the interruption runs while its synthesis is pending.                   *)
(***************************************************************************)
HitTasks(B, o) ==
    LET touched(t) == t.session = o
        D == { IF touched(t) THEN [t EXCEPT !.hit = TRUE] ELSE t : t \in DOMAIN B }
    IN  [ t \in D |->
            IF touched(t)
            THEN CopiesIn(t, B) + CopiesIn([t EXCEPT !.hit = FALSE], B)
            ELSE B[t] ]

\* A variant of handleInterruption that leaves isAISpeaking set; C3 does not
\* hold of it.
handleInterruption_StillSpeaking(W, o) ==
    [W EXCEPT
       !.objs = [@ EXCEPT ![o].currentAudioChunks = <<>>,
                          ![o].userSpeechDetected = TRUE,
                          ![o].tripped = TRUE,
                          ![o].playing = FALSE],
       !.conns = Send(@, W.objs[o].ws, <<ClearMsg(W.objs[o])>>),
       !.tasks = HitTasks(@, o),
       !.last = Ran("interrupt", W.objs[o].ws, o,
                    Wire(W.conns, W.objs[o].ws, <<ClearMsg(W.objs[o])>>))]

handleInterruption(W, o) ==
    [W EXCEPT
       !.objs = [@ EXCEPT ![o].isAISpeaking = FALSE,
                          ![o].currentAudioChunks = <<>>,
                          ![o].userSpeechDetected = TRUE,
                          ![o].tripped = TRUE,
                          ![o].playing = FALSE],
       !.conns = Send(@, W.objs[o].ws, <<ClearMsg(W.objs[o])>>),
       !.tasks = HitTasks(@, o),
       !.last = Ran("interrupt", W.objs[o].ws, o,
                    Wire(W.conns, W.objs[o].ws, <<ClearMsg(W.objs[o])>>))]

(***************************************************************************)
(* endSession(callId)                                                      *)
(***************************************************************************)
endSession(W, callId) ==
    LET o == W.sessions[callId] IN
    IF o = 0 THEN W
    ELSE [W EXCEPT
            !.sessions = [@ EXCEPT ![callId] = 0],
            !.objs = [@ EXCEPT ![o].ended = TRUE],
            !.stt = IF W.objs[o].sttStream # 0
                    THEN [@ EXCEPT ![W.objs[o].sttStream].finished = @ + 1,
                                   ![W.objs[o].sttStream].listening = FALSE]
                    ELSE @,
            !.silenceTimers = IF W.objs[o].silenceTimer # 0
                              THEN clearTimeout(@, W.objs[o].silenceTimer)
                              ELSE @]

\* the handlers' "if (callId) this.endSession(callId)" on connection n
endIfCallId(W, n, op) ==
    LET c == W.conns[n].callId
        R == IF c # NoId THEN endSession(W, c) ELSE W
    IN  [R EXCEPT !.last = [Ran(op, n, W.conns[n].session, <<>>) EXCEPT
                              !.ended = IF c # NoId THEN W.sessions[c] ELSE 0]]

(***************************************************************************)
(* handleConnection(ws, req): a transport connection is accepted.          *)
(***************************************************************************)
\* new MediaStreamHandler(deepgramApiKey, geminiApiKey, ...) and
\* new DeepgramBrowserHandler(...): the constructor throws unless both keys are
\* given (TRUE); without a handler there is no handleConnection to call.
constructor(deepgramApiKey, geminiApiKey) ==
    IF ~deepgramApiKey THEN "Missing Deepgram API Key"
    ELSE IF ~geminiApiKey THEN "Missing Gemini API Key"
    ELSE "constructed"

\* Connections are interchangeable: they are numbered in the order in which
\* they are first used, so the next one is accepted once the last one has
\* received a start event or has been closed.
Connect ==
    /\ constructor(env.deepgramApiKey, env.geminiApiKey) = "constructed"
    /\ Len(conns) < env.conns
    /\ Len(conns) > 0 =>
         \/ conns[Len(conns)].callId # NoId
         \/ conns[Len(conns)].ws # "open"
    /\ Becomes([World EXCEPT
                  !.conns = Append(@, [callId |-> NoId, session |-> 0,
                                       ws |-> "open", marks |-> 0]),
                  !.last = Ran("connect", Len(conns) + 1, 0, <<>>)])

(***************************************************************************)
(* The start event from createSession on (lines 117-208), on connection n, *)
(* whose closure variable callId is already set in W.                      *)
(***************************************************************************)
openSession(W, n, sid) ==
    LET o == Len(W.objs) + 1
        s == [NewSession(W.conns[n].callId, n) EXCEPT
                !.streamSid = sid, !.isReady = TRUE, !.sttStream = o,
                !.afterDestroy =
                    \E p \in 1..Len(W.objs) :
                       W.objs[p].ended /\ W.objs[p].callId = W.conns[n].callId]
    IN  [W EXCEPT
           !.sessions = [@ EXCEPT ![W.conns[n].callId] = o],
           !.objs = Append(@, s),
           !.stt = Append(@, [conn |-> n, listening |-> TRUE, finished |-> 0]),
           !.conns = [@ EXCEPT ![n].session = o],
           !.greetTimers = @ \cup {[conn |-> n, owner |-> o]},
           !.last = Ran("start", n, o, <<>>)]

\* A variant of the start handler without the test of callId (lines 86-90): it
\* goes on to create the session under the missing identifier; C23 does not
\* hold of it.
startEvent_NoCheck(W, n, cid, sid, agent) ==
    LET W1 == [W EXCEPT !.conns = [@ EXCEPT ![n].callId = cid]] IN
    IF agent
    THEN [W1 EXCEPT !.starts = Append(@, [conn |-> n, streamSid |-> sid]),
                    !.last = Ran("start-await", n, W.conns[n].session, <<>>)]
    ELSE openSession(W1, n, sid)

\* ws.on("message") with data.event = "start", up to its first await or its end
startEvent(W, n, cid, sid, agent) ==
    LET W1 == [W EXCEPT !.conns = [@ EXCEPT ![n].callId = cid]] IN
    IF cid = NoId
    THEN [W1 EXCEPT !.conns = [@ EXCEPT ![n].ws = "closing"],
                    !.last = Ran("start-refused", n, W.conns[n].session, <<>>)]
    ELSE IF agent
    THEN [W1 EXCEPT !.starts = Append(@, [conn |-> n, streamSid |-> sid]),
                    !.last = Ran("start-await", n, W.conns[n].session, <<>>)]
    ELSE openSession(W1, n, sid)

StartEvent(n, cid, sid, agent) ==
    /\ n \in 1..Len(conns)
    /\ conns[n].ws = "open"
    /\ cid # NoId => Len(objs) + Len(starts) < env.sessions
    /\ (conns[n].session # 0 \/ \E i \in 1..Len(starts) : starts[i].conn = n)
          => env.restarts
    /\ Becomes(startEvent(World, n, cid, sid, agent))

\* the start handler resumes after await agentService.getAgentById
StartResume(i) ==
    /\ i \in 1..Len(starts)
    /\ Becomes(openSession([World EXCEPT !.starts = RemoveAt(@, i)],
                           starts[i].conn, starts[i].streamSid))

(***************************************************************************)
(* deepgramLive.on("Transcript") of recognition stream k.  The listener    *)
(* reads the closure variable session of the connection that opened the    *)
(* stream, at the time the event is handled.                               *)
(***************************************************************************)
\* A variant of the test below that also lets a transcript of exactly
\* threshold length through; C4 does not hold of it.
Interrupts_AtThreshold(s, d) ==
    s.isAISpeaking /\ Len(d.transcript) >= SignificanceThreshold

\* does the interim branch call handleInterruption (line 147)
Interrupts(s, d) ==
    s.isAISpeaking /\ Len(d.transcript) > SignificanceThreshold

\* the interim branch (lines 143-152)
interimBranch(W, n, o, d) ==
    LET W1 == [W EXCEPT !.objs = [@ EXCEPT ![o].interimTranscript = d.transcript],
                        !.last = Ran("interim", n, o, <<>>)]
    IN  IF Interrupts(W.objs[o], d) THEN handleInterruption(W1, o) ELSE W1

\* A variant of the final branch that leaves the silence timer alone; C16 does
\* not hold of it.
finalBranch_KeepsTimer(W, n, o, d) ==
    [W EXCEPT
       !.objs = [@ EXCEPT
                   ![o] = appendToContext([@ EXCEPT !.finals = @ + 1],
                                          d.transcript, "user")],
       !.tasks = AddTask(@, [Task("llm", o, "reply", <<>>, FALSE) EXCEPT
                               !.turn = Len(W.objs[o].context) + 1,
                               !.request = generateContent(llmRequest(
                                   appendToContext(W.objs[o], d.transcript,
                                                   "user")))]),
       !.last = [Ran("final", n, o, <<>>) EXCEPT
                   !.lateAppend = W.objs[o].ended,
                   !.cancelled = Pending(W.silenceTimers, W.objs[o].silenceTimer)]]

\* the final branch (lines 154-166), up to the await in callLLM
finalBranch(W, n, o, d) ==
    [W EXCEPT
       !.silenceTimers = IF W.objs[o].silenceTimer # 0
                         THEN clearTimeout(@, W.objs[o].silenceTimer) ELSE @,
       !.objs = [@ EXCEPT
                   ![o] = appendToContext(
                            [@ EXCEPT !.silenceTimer = 0, !.finals = @ + 1],
                            d.transcript, "user")],
       !.tasks = AddTask(@, [Task("llm", o, "reply", <<>>, FALSE) EXCEPT
                               !.turn = Len(W.objs[o].context) + 1,
                               !.request = generateContent(llmRequest(
                                   appendToContext(W.objs[o], d.transcript,
                                                   "user")))]),
       !.last = [Ran("final", n, o, <<>>) EXCEPT
                   !.lateAppend = W.objs[o].ended,
                   !.cancelled = Pending(W.silenceTimers, W.objs[o].silenceTimer)]]

onTranscript(W, k, d) ==
    LET n == W.stt[k].conn
        o == W.conns[n].session
    IN  IF IsBlank(d) THEN [W EXCEPT !.last = Ran("blank", n, o, <<>>)]
        ELSE IF ~d.is_final THEN interimBranch(W, n, o, d)
        ELSE finalBranch(W, n, o, d)

Transcript(k, d) ==
    /\ k \in 1..Len(stt)
    /\ stt[k].listening
    /\ (d.is_final /\ ~IsBlank(d)) => NumFinals(objs) < env.finals
    /\ Becomes(onTranscript(World, k, d))

(***************************************************************************)
(* deepgramLive.on("VoiceActivity") with speech_final, and the silence     *)
(* timer it starts.                                                        *)
(***************************************************************************)
\* A variant of the listener that starts the new timer without cancelling the
\* one before; C14 does not hold of it.
onVoiceActivity_KeepsTimer(W, k) ==
    LET n == W.stt[k].conn
        o == W.conns[n].session
        h == W.vadCount + 1
    IN  [W EXCEPT
           !.silenceTimers = @ \cup {[handle |-> h, owner |-> o]},
           !.objs = [@ EXCEPT ![o].silenceTimer = h],
           !.vadCount = h,
           !.last = [Ran("vad", n, o, <<>>) EXCEPT
                       !.cancelled =
                          Pending(W.silenceTimers, W.objs[o].silenceTimer)]]

onVoiceActivity(W, k) ==
    LET n == W.stt[k].conn
        o == W.conns[n].session
        h == W.vadCount + 1
    IN  [W EXCEPT
           !.silenceTimers = (IF W.objs[o].silenceTimer # 0
                              THEN clearTimeout(@, W.objs[o].silenceTimer)
                              ELSE @) \cup {[handle |-> h, owner |-> o]},
           !.objs = [@ EXCEPT ![o].silenceTimer = h],
           !.vadCount = h,
           !.last = [Ran("vad", n, o, <<>>) EXCEPT
                       !.cancelled =
                          Pending(W.silenceTimers, W.objs[o].silenceTimer)]]

VoiceActivity(k) ==
    /\ k \in 1..Len(stt)
    /\ stt[k].listening
    /\ vadCount < env.vads
    /\ Becomes(onVoiceActivity(World, k))

\* A variant of the timer callback that hands the buffered interim transcript
\* to the reply pipeline when the agent is not speaking; C15 does not hold of it.
onSilenceTimer_Processes(W, t) ==
    LET o == t.owner IN
    [W EXCEPT
       !.silenceTimers = @ \ {t},
       !.objs = IF ~W.objs[o].isAISpeaking
                THEN [@ EXCEPT ![o] = appendToContext(@, @.interimTranscript, "user")]
                ELSE @,
       !.tasks = IF ~W.objs[o].isAISpeaking
                 THEN AddTask(@, Task("llm", o, "reply", <<>>, FALSE))
                 ELSE @,
       !.last = Ran("silence", W.objs[o].ws, o, <<>>)]

\* the timer callback (lines 179-184) only logs; the handle stays in
\* session.silenceTimer
onSilenceTimer(W, t) ==
    [W EXCEPT !.silenceTimers = @ \ {t},
              !.last = Ran("silence", W.objs[t.owner].ws, t.owner, <<>>)]

SilenceTimerFires(t) ==
    /\ t \in silenceTimers
    /\ Becomes(onSilenceTimer(World, t))

(***************************************************************************)
(* speakWithInterruption(session, text) up to the await of synthesizeTTS.  *)
(***************************************************************************)
speakStart(s) ==
    [s EXCEPT !.isAISpeaking = TRUE, !.userSpeechDetected = FALSE,
              !.tripped = FALSE, !.playing = FALSE]

\* the 500 ms greeting timer of the start event (lines 201-208); the callback
\* reads the closure variable session when it runs
onGreetingTimer(W, t) ==
    LET o == W.conns[t.conn].session IN
    [W EXCEPT
       !.greetTimers = @ \ {t},
       !.objs = [@ EXCEPT ![o] = [speakStart(@) EXCEPT !.greeted = @ + 1]],
       !.tasks = AddTask(@, Task("synth", o, "greeting", Greeting, FALSE)),
       !.last = Ran("greet", t.conn, o, <<>>)]

GreetingTimerFires(t) ==
    /\ t \in greetTimers
    /\ Becomes(onGreetingTimer(World, t))

(***************************************************************************)
(* handleUserMessage resumes: callLLM returned the model's text, or the    *)
(* apology when generateContent failed.                                    *)
(***************************************************************************)
\* The session s has moved past the language-model request t: it was
\* interrupted or destroyed, or it accepted a later final transcript, while
\* the request was outstanding.
MovedPast(s, t) ==
    \/ t.hit
    \/ s.ended
    \/ \E i \in (t.turn + 1)..Len(s.context) : s.context[i].role = "user"

\* A variant of callLLM that returns nothing when generateContent fails; C20
\* does not hold of it.
callLLM_NoApology(r) == r.text

\* callLLM: what it returns when generateContent ended as r (lines 322-334)
callLLM(r) == IF r.ok THEN r.text ELSE Apology

onLLMReturn(W, t, text) ==
    LET o == t.session IN
    [W EXCEPT
       !.objs = [@ EXCEPT ![o] = speakStart(appendToContext(@, text, "model"))],
       !.tasks = AddTask(DelTask(@, t),
                         [Task("synth", o, t.kind, text, FALSE) EXCEPT
                            !.stale = MovedPast(W.objs[o], t)]),
       !.last = [Ran("llm", W.objs[o].ws, o, <<>>) EXCEPT
                   !.lateAppend = W.objs[o].ended,
                   !.overtook = \E u \in BagToSet(W.tasks) :
                                   /\ u.await = "llm"
                                   /\ u.session = o
                                   /\ u.turn < t.turn]]

LLMReturns(t, r) ==
    /\ BagIn(t, tasks)
    /\ t.await = "llm"
    /\ Becomes(onLLMReturn(World, t, callLLM(r)))

(***************************************************************************)
(* sendAudioToTwilio(session, audioBuffer) for a reply of kind k: the new  *)
(* session object and the messages handed to ws.send.  The loop runs       *)
(* without yielding, so userSpeechDetected is the same at every iteration. *)
(* throws: ws.send raised (possible only on a socket that is not open).    *)
(***************************************************************************)
\* A variant of sendAudioToTwilio that sends the completion mark before the
\* frames; C18 does not hold of it.
sendAudioToTwilio_MarkFirst(s, k, hit, bytes, throws) ==
    IF ~s.isReady \/ s.streamSid = NoId
    THEN [session |-> [s EXCEPT !.audioQueue = Append(@, bytes)],
          msgs |-> <<>>, st |-> "queued"]
    ELSE IF s.userSpeechDetected /\ Base64Len(bytes) > 0
    THEN [session |-> [s EXCEPT !.isAISpeaking = FALSE],
          msgs |-> <<>>, st |-> "aborted"]
    ELSE IF throws
    THEN [session |-> [s EXCEPT !.isAISpeaking = FALSE],
          msgs |-> <<>>, st |-> "threw"]
    ELSE [session |-> [s EXCEPT !.playing = @ \/ Base64Len(bytes) > 0],
          msgs |-> <<MarkMsg(s, k, hit)>> \o Frames(s, k, hit, Base64Len(bytes), 0),
          st |-> "sent"]

sendAudioToTwilio(s, k, hit, bytes, throws) ==
    IF ~s.isReady \/ s.streamSid = NoId
    THEN [session |-> [s EXCEPT !.audioQueue = Append(@, bytes)],
          msgs |-> <<>>, st |-> "queued"]
    ELSE IF s.userSpeechDetected /\ Base64Len(bytes) > 0
    THEN [session |-> [s EXCEPT !.isAISpeaking = FALSE],
          msgs |-> <<>>, st |-> "aborted"]
    ELSE IF throws
    THEN [session |-> [s EXCEPT !.isAISpeaking = FALSE],
          msgs |-> <<>>, st |-> "threw"]
    ELSE [session |-> [s EXCEPT !.playing = @ \/ Base64Len(bytes) > 0],
          msgs |-> Frames(s, k, hit, Base64Len(bytes), 0) \o <<MarkMsg(s, k, hit)>>,
          st |-> "sent"]

(***************************************************************************)
(* speakWithInterruption resumes after await synthesizeTTS (lines 303-319).*)
(* audio: the buffer's length in bytes, or -1 when synthesizeTTS returned  *)
(* null.                                                                   *)
(***************************************************************************)
\* A variant of speakWithInterruption that returns on a null buffer without
\* resetting isAISpeaking; C22 does not hold of it.
speakResume_StillSpeaking(s, k, hit, audio, throws) ==
    IF audio < 0
    THEN [session |-> s, msgs |-> <<>>, st |-> "skipped"]
    ELSE LET s1 == [s EXCEPT !.currentAudioChunks = Append(@, audio)] IN
         IF s1.userSpeechDetected
         THEN [session |-> [s1 EXCEPT !.isAISpeaking = FALSE],
               msgs |-> <<>>, st |-> "aborted"]
         ELSE sendAudioToTwilio(s1, k, hit, audio, throws)

speakResume(s, k, hit, audio, throws) ==
    IF audio < 0
    THEN [session |-> [s EXCEPT !.isAISpeaking = FALSE],
          msgs |-> <<>>, st |-> "skipped"]
    ELSE LET s1 == [s EXCEPT !.currentAudioChunks = Append(@, audio)] IN
         IF s1.userSpeechDetected
         THEN [session |-> [s1 EXCEPT !.isAISpeaking = FALSE],
               msgs |-> <<>>, st |-> "aborted"]
         ELSE sendAudioToTwilio(s1, k, hit, audio, throws)

onSynthReturn(W, t, audio, throws) ==
    LET o == t.session
        w == W.objs[o].ws
        res == speakResume(W.objs[o], t.kind, t.hit, audio, throws)
    IN  [W EXCEPT
           !.objs = [@ EXCEPT ![o] = res.session],
           !.conns = Send(@, w, res.msgs),
           !.tasks = DelTask(@, t),
           !.last = [Ran(res.st, w, o, Wire(W.conns, w, res.msgs)) EXCEPT
                       !.kind = t.kind, !.hit = t.hit, !.stale = t.stale]]

SynthReturns(t, audio, throws) ==
    /\ BagIn(t, tasks)
    /\ t.await = "synth"
    /\ throws => conns[objs[t.session].ws].ws # "open"
    /\ Becomes(onSynthReturn(World, t, audio, throws))

(***************************************************************************)
(* The other transport messages of connection n.                           *)
(***************************************************************************)
\* data.event = "media": inbound audio, payload bytes long
onMedia(W, n, payload) ==
    LET o == W.conns[n].session IN
    [W EXCEPT
       !.objs = IF o # 0 /\ W.objs[o].sttStream # 0 /\ payload > 0
                THEN [@ EXCEPT ![o].userSpeechDetected = TRUE] ELSE @,
       !.last = Ran("media", n, o, <<>>)]

MediaEvent(n, payload) ==
    /\ n \in 1..Len(conns)
    /\ conns[n].ws = "open"
    /\ Becomes(onMedia(World, n, payload))

\* data.event = "stop"
StopEvent(n) ==
    /\ n \in 1..Len(conns)
    /\ conns[n].ws = "open"
    /\ Becomes(endIfCallId(World, n, "stop"))

\* data.event = "mark", name "audio_complete": the peer echoes a mark it was sent.
\* With the closure variable session still null the handler throws a TypeError,
\* which its own try/catch swallows.
onMark(W, n) ==
    LET o == W.conns[n].session IN
    [W EXCEPT
       !.conns = [@ EXCEPT ![n].marks = @ - 1],
       !.objs = IF o # 0
                THEN [@ EXCEPT ![o].isAISpeaking = FALSE,
                               ![o].currentAudioChunks = <<>>,
                               ![o].playing = FALSE]
                ELSE @,
       !.last = Ran("mark", n, o, <<>>)]

MarkEvent(n) ==
    /\ n \in 1..Len(conns)
    /\ conns[n].ws = "open"
    /\ conns[n].marks > 0
    /\ Becomes(onMark(World, n))

\* ws.on("close")
onClose(W, n) ==
    endIfCallId([W EXCEPT !.conns = [@ EXCEPT ![n].ws = "closed", ![n].marks = 0]],
                n, "close")

CloseEvent(n) ==
    /\ n \in 1..Len(conns)
    /\ conns[n].ws \in {"open", "closing"}
    /\ Becomes(onClose(World, n))

(***************************************************************************)
(* DeepgramBrowserHandler.  The handler has a registry of its own, keyed by *)
(* connectionId = "browser_" + Date.now(); the identifier is modelled by    *)
(* the clock reading, which does not decrease from one connection to the   *)
(* next and may be the same for two of them.  The state of the handler is  *)
(* one record: the registry, the session objects, the recognition streams, *)
(* the closures of handleConnection, the pending greeting timers and the   *)
(* outstanding language-model and synthesis calls.                         *)
(***************************************************************************)
BrowserIds == 1..MaxConns

BrowserGreeting == <<"Hello! How can I help you today?">>
BrowserApology == <<"I'm having trouble connecting to my brain right now.">>

\* What is recorded of the handler that ran last: its name, its connection and
\* session object, the session object endSession removed (0: none) and the
\* messages that went out on the socket.
BrowserRan(op, n, o, out) ==
    [op |-> op, conn |-> n, session |-> o, ended |-> 0, out |-> out,
     logged |-> TRUE]   \* history: FALSE when the call-log statement of the
                        \* handler failed or was skipped

\* createSession: the new session object
BrowserNewSession(id, ws) ==
    [ id |-> id,
      context |-> <<>>,
      sttStream |-> 0,
      ws |-> ws,
      isReady |-> FALSE,
      isSpeaking |-> FALSE,
      lastUserSpeechTime |-> FALSE,   \* null, or set
      callId |-> FALSE,               \* null, or the identifier of the call row
      agentPrompt |-> DefaultPrompt,
      ended |-> FALSE,     \* history: endSession has removed this object
      finals |-> 0,        \* history: final transcripts accepted on this object
      speakTimers |-> 0 ]  \* pending speaking-duration timers of sendAudioToClient

\* ws.send guarded by ws.readyState === ws.OPEN
BrowserWire(B, n, msgs) == IF B.conns[n].ws = "open" THEN msgs ELSE <<>>

BrowserMsg(s, event, text) == [event |-> event, text |-> text, late |-> s.ended]

\* createSession(connectionId, ...) called from handleConnection of connection n
browserCreateSession(B, n) ==
    LET o == Len(B.objs) + 1 IN
    [B EXCEPT
       !.sessions = [@ EXCEPT ![B.conns[n].id] = o],
       !.objs = Append(@, BrowserNewSession(B.conns[n].id, n)),
       !.conns = [@ EXCEPT ![n].session = o, ![n].phase = "log"],
       !.last = BrowserRan("create", n, o, <<>>)]

\* A variant of endSession that leaves the registry entry in place; C7 does not
\* hold of it.
browserEndSession_KeepsEntry(B, id) ==
    LET o == B.sessions[id] IN
    IF o = 0 THEN B
    ELSE [B EXCEPT
            !.objs = [@ EXCEPT ![o].ended = TRUE],
            !.streams = IF B.objs[o].sttStream # 0
                        THEN [@ EXCEPT ![B.objs[o].sttStream].finished = @ + 1,
                                       ![B.objs[o].sttStream].listening = FALSE]
                        ELSE @]

\* endSession(connectionId)
browserEndSession(B, id) ==
    LET o == B.sessions[id] IN
    IF o = 0 THEN B
    ELSE [B EXCEPT
            !.sessions = [@ EXCEPT ![id] = 0],
            !.objs = [@ EXCEPT ![o].ended = TRUE],
            !.streams = IF B.objs[o].sttStream # 0
                        THEN [@ EXCEPT ![B.objs[o].sttStream].finished = @ + 1,
                                       ![B.objs[o].sttStream].listening = FALSE]
                        ELSE @]

BrowserBecomes(B) ==
    /\ browser' = B
    /\ UNCHANGED <<sessions, objs, stt, conns, starts, greetTimers, silenceTimers,
                   vadCount, tasks, last, env, framer, codec, mulaw,
                   tts, campaign>>

\* A variant of handleConnection in which a failed insert of logCallStart is
\* thrown on: the catch of handleConnection (lines 249-252) closes the socket
\* and nothing is set up; C29 does not hold of it.
browserSetup_ThrowsOnLogError(B, n, logged) ==
    LET o == B.conns[n].session
        k == Len(B.streams) + 1
    IN  IF ~logged
        THEN [B EXCEPT
                !.conns = [@ EXCEPT ![n].phase = "failed", ![n].ws = "closed"],
                !.last = [BrowserRan("setup", n, o, <<>>) EXCEPT !.logged = FALSE]]
        ELSE [B EXCEPT
                !.objs = [@ EXCEPT ![o].callId = logged, ![o].sttStream = k],
                !.streams = Append(@, [conn |-> n, listening |-> TRUE,
                                       finished |-> 0]),
                !.timers = @ \cup {n},
                !.conns = [@ EXCEPT ![n].phase = "up", ![n].keepAlive = TRUE],
                !.last = BrowserRan("setup", n, o, <<>>)]

\* handleConnection from the return of logCallStart to its end (lines 96-246):
\* greeting timer, recognition stream, listeners, keep-alive interval.
\* logged: logCallStart inserted the call row and set session.callId.
browserSetup(B, n, logged) ==
    LET o == B.conns[n].session
        k == Len(B.streams) + 1
    IN  [B EXCEPT
           !.objs = [@ EXCEPT ![o].callId = logged, ![o].sttStream = k],
           !.streams = Append(@, [conn |-> n, listening |-> TRUE, finished |-> 0]),
           !.timers = @ \cup {n},
           !.conns = [@ EXCEPT ![n].phase = "up", ![n].keepAlive = TRUE],
           !.last = [BrowserRan("setup", n, o, <<>>) EXCEPT
                       !.logged = logged]]

\* handleConnection from createSession on (line 93).  Without a database pool
\* or a user identifier logCallStart returns at once and the function goes on
\* before any other handler can run; with them it waits for the insert.
browserOpen(B, n, database) ==
    IF database THEN browserCreateSession(B, n)
    ELSE browserSetup(browserCreateSession(B, n), n, FALSE)

\* handleConnection(ws, req) up to its first wait: getAgentById when agentId and
\* userId are given (agent).
BrowserConnect(id, agent) ==
    /\ constructor(env.deepgramApiKey, env.geminiApiKey) = "constructed"
    /\ Len(browser.conns) < env.browsers
    /\ IF browser.conns = <<>> THEN id = 1
       ELSE id \in {browser.conns[Len(browser.conns)].id,
                    browser.conns[Len(browser.conns)].id + 1}
    /\ LET n == Len(browser.conns) + 1
           B == [browser EXCEPT
                   !.conns = Append(@, [id |-> id, session |-> 0, phase |-> "agent",
                                        ws |-> "open", keepAlive |-> FALSE,
                                        closing |-> FALSE]),
                   !.last = BrowserRan("connect", n, 0, <<>>)]
       IN  BrowserBecomes(IF agent THEN B ELSE browserOpen(B, n, env.database))

\* handleConnection resumes after await agentService.getAgentById
BrowserAgentReturns(n) ==
    /\ n \in 1..Len(browser.conns)
    /\ browser.conns[n].phase = "agent"
    /\ BrowserBecomes(browserOpen(browser, n, env.database))

\* handleConnection resumes after the insert of logCallStart
BrowserSetup(n, logged) ==
    /\ n \in 1..Len(browser.conns)
    /\ browser.conns[n].phase = "log"
    /\ BrowserBecomes(browserSetup(browser, n, logged))

\* the 500 ms greeting timer of connection n (lines 99-119), up to the await
BrowserGreetingTimer(n) ==
    /\ n \in browser.timers
    /\ LET o == browser.conns[n].session
           up == browser.conns[n].ws = "open"
           out == <<BrowserMsg(browser.objs[o], "agent-response", BrowserGreeting)>>
       IN  BrowserBecomes(
             [browser EXCEPT
                !.timers = @ \ {n},
                !.tasks = IF up
                          THEN AddTask(@, Task("synth", o, "greeting",
                                               BrowserGreeting, FALSE))
                          ELSE @,
                !.last = BrowserRan("greet", n, o, IF up THEN out ELSE <<>>)])

\* sendAudioToClient(session, audioBuffer) on session object o
sendAudioToClient(B, o, audio) ==
    LET n == B.objs[o].ws IN
    IF B.conns[n].ws # "open"
    THEN [B EXCEPT !.last = BrowserRan("unsent", n, o, <<>>)]
    ELSE [B EXCEPT
            !.objs = [@ EXCEPT ![o].isSpeaking = TRUE, ![o].speakTimers = @ + 1],
            !.last = BrowserRan("audio", n, o,
                                <<BrowserMsg(B.objs[o], "audio", audio)>>)]

\* synthesizeTTS resolved for the greeting or for a reply; audio = -1 is null,
\* which it returns whenever generateTTS failed (lines 272-290)
browserOnSynthReturn(B, t, audio) ==
    LET B1 == [B EXCEPT
                 !.tasks = DelTask(@, t),
                 !.last = BrowserRan("no-audio", B.objs[t.session].ws,
                                     t.session, <<>>)]
    IN  IF audio < 0 THEN B1 ELSE sendAudioToClient(B1, t.session, audio)

BrowserSynthReturns(t, audio) ==
    /\ BagIn(t, browser.tasks)
    /\ t.await = "synth"
    /\ BrowserBecomes(browserOnSynthReturn(browser, t, audio))

\* the speaking-duration timer of sendAudioToClient (lines 306-308).  The
\* buffers are of one length, so the timers of a session expire in the order
\* in which they were set.
browserOnSpeakingTimer(B, o) ==
    [B EXCEPT
       !.objs = [@ EXCEPT ![o].isSpeaking = FALSE, ![o].speakTimers = @ - 1],
       !.last = BrowserRan("quiet", B.objs[o].ws, o, <<>>)]

BrowserSpeakingTimer(o) ==
    /\ o \in 1..Len(browser.objs)
    /\ browser.objs[o].speakTimers > 0
    /\ BrowserBecomes(browserOnSpeakingTimer(browser, o))

\* deepgramLive.on(Transcript) of stream k (lines 141-196), up to await callLLM.
\* throws: the unguarded ws.send of stop-audio raised, which is possible only on
\* a socket that is not open; the catch then ends the handler.
browserOnTranscript(B, k, d, throws) ==
    LET n == B.streams[k].conn
        o == B.conns[n].session
        s == B.objs[o]
        echo == BrowserWire(B, n, <<BrowserMsg(s, "transcript", d.transcript)>>)
        stop == IF s.isSpeaking
                THEN BrowserWire(B, n, <<BrowserMsg(s, "stop-audio", <<>>)>>)
                ELSE <<>>
        s1 == [s EXCEPT !.lastUserSpeechTime = TRUE, !.isSpeaking = FALSE,
                        !.finals = @ + 1]
    IN  IF ~d.is_final \/ IsBlank(d)
        THEN [B EXCEPT !.last = BrowserRan("ignored", n, o, <<>>)]
        ELSE IF throws
        THEN [B EXCEPT !.objs = [@ EXCEPT ![o] = s1],
                       !.last = BrowserRan("threw", n, o, echo)]
        ELSE [B EXCEPT
                !.objs = [@ EXCEPT ![o] = appendToContext(s1, d.transcript, "user")],
                !.tasks = AddTask(@, [Task("llm", o, "reply", <<>>, FALSE) EXCEPT
                                        !.request = generateContent(llmRequest(
                                            appendToContext(s1, d.transcript,
                                                            "user")))]),
                !.last = BrowserRan("final", n, o, echo \o stop)]

BrowserTranscript(k, d, throws) ==
    /\ k \in 1..Len(browser.streams)
    /\ browser.streams[k].listening
    /\ (d.is_final /\ ~IsBlank(d)) => NumFinals(browser.objs) < env.finals
    /\ throws =>
         LET n == browser.streams[k].conn IN
         /\ d.is_final /\ ~IsBlank(d)
         /\ browser.objs[browser.conns[n].session].isSpeaking
         /\ browser.conns[n].ws # "open"
    /\ BrowserBecomes(browserOnTranscript(browser, k, d, throws))

\* callLLM: what it returns when generateContent ended as r (lines 255-270)
browserCallLLM(r) == IF r.ok THEN r.text ELSE BrowserApology

\* the Transcript listener resumes after await callLLM (lines 171-191)
browserOnLLMReturn(B, t, text) ==
    LET o == t.session
        n == B.objs[o].ws
    IN  [B EXCEPT
           !.objs = [@ EXCEPT ![o] = appendToContext(@, text, "model")],
           !.tasks = AddTask(DelTask(@, t), Task("synth", o, "reply", text, FALSE)),
           !.last = BrowserRan("llm", n, o,
                       BrowserWire(B, n,
                          <<BrowserMsg(B.objs[o], "agent-response", text)>>))]

BrowserLLMReturns(t, r) ==
    /\ BagIn(t, browser.tasks)
    /\ t.await = "llm"
    /\ BrowserBecomes(browserOnLLMReturn(browser, t, browserCallLLM(r)))

\* ws.on("message") (lines 211-229); the listener exists once the set-up is done
BrowserMessage(n, event) ==
    /\ n \in 1..Len(browser.conns)
    /\ browser.conns[n].phase = "up"
    /\ browser.conns[n].ws = "open"
    /\ LET o == browser.conns[n].session
           B == IF event = "stop" THEN browserEndSession(browser, browser.conns[n].id)
                ELSE browser
       IN  BrowserBecomes(
             [B EXCEPT
                !.last = [BrowserRan(event, n, o,
                             IF event = "ping"
                             THEN <<BrowserMsg(browser.objs[o], "pong", <<>>)>>
                             ELSE <<>>) EXCEPT
                            !.ended = IF event = "stop"
                                      THEN browser.sessions[browser.conns[n].id]
                                      ELSE 0]])

\* ws.on("close") from the return of logCallEnd on (lines 237-238); updated:
\* the update of logCallEnd did not fail (its catch, lines 363-365, returns
\* normally when it did)
browserClosed(B, n, updated) ==
    [browserEndSession(B, B.conns[n].id) EXCEPT
       !.conns = [@ EXCEPT ![n].closing = FALSE, ![n].keepAlive = FALSE],
       !.last = [BrowserRan("closed", n, B.conns[n].session, <<>>) EXCEPT
                   !.ended = B.sessions[B.conns[n].id],
                   !.logged = updated]]

\* The socket closes.  ws.on("close") (lines 231-239) exists once the set-up is
\* done.  logCallEnd waits for the update only when the call row was inserted;
\* otherwise it returns at once and the listener goes on.
BrowserClose(n) ==
    /\ n \in 1..Len(browser.conns)
    /\ browser.conns[n].ws = "open"
    /\ LET o == browser.conns[n].session
           B == [browser EXCEPT
                   !.conns = [@ EXCEPT ![n].ws = "closed"],
                   !.last = BrowserRan("close", n, o, <<>>)]
       IN  BrowserBecomes(
             IF browser.conns[n].phase # "up" THEN B
             ELSE IF browser.objs[o].callId
             THEN [B EXCEPT !.conns = [@ EXCEPT ![n].closing = TRUE]]
             ELSE browserClosed(B, n, TRUE))

\* the close listener resumes after the update of logCallEnd
BrowserCloseResumes(n, updated) ==
    /\ n \in 1..Len(browser.conns)
    /\ browser.conns[n].closing
    /\ BrowserBecomes(browserClosed(browser, n, updated))

\* the keep-alive interval of connection n (lines 242-246)
BrowserKeepAlive(n) ==
    /\ n \in 1..Len(browser.conns)
    /\ browser.conns[n].keepAlive
    /\ env.ticks
    /\ BrowserBecomes(
         [browser EXCEPT
            !.last = BrowserRan("keepalive", n, browser.conns[n].session, <<>>)])

(***************************************************************************)
(* The specification.  A run is one scenario: env bounds what the          *)
(* environment does in it.                                                 *)
(***************************************************************************)
\* The environment that does nothing.
Idle ==
    [conns |-> 0, sessions |-> 0, finals |-> 0, vads |-> 0, sids |-> {"MZ1"},
     agents |-> {FALSE}, interims |-> {}, payloads |-> {}, restarts |-> FALSE,
     audio |-> AudioBytes \cup {-1}, browsers |-> 0, events |-> {},
     database |-> FALSE, ticks |-> FALSE,
     deepgramApiKey |-> TRUE, geminiApiKey |-> TRUE,
     callIds |-> {"CA1"}]

Scenarios ==
    { \* one call with one utterance: interim speech, inbound audio, a start
      \* event that may lack the stream identifier and an agent that may have
      \* to be loaded
      [Idle EXCEPT !.conns = 1, !.sessions = 1, !.finals = 1,
                   !.sids = StreamSids, !.agents = BOOLEAN, !.restarts = TRUE,
                   !.interims = InterimTexts, !.payloads = {0, 160}],
      \* one call with one utterance, interim speech and voice-activity
      \* markers
      [Idle EXCEPT !.conns = 1, !.sessions = 1, !.finals = 1, !.vads = MaxVad,
                   !.interims = {<<"w", "a", "i", "t">>}],
      \* one call with several final transcripts
      [Idle EXCEPT !.conns = 1, !.sessions = 1, !.finals = MaxFinals],
      \* several start events on one connection
      [Idle EXCEPT !.conns = 1, !.sessions = MaxSessions, !.agents = BOOLEAN,
                   !.restarts = TRUE],
      \* several connections with one start event each
      [Idle EXCEPT !.conns = MaxConns, !.sessions = MaxSessions],
      \* one browser call with a database, lasting longer than the keep-alive
      \* period
      [Idle EXCEPT !.browsers = 1, !.finals = MaxFinals, !.agents = BOOLEAN,
                   !.events = {"audio", "ping", "stop"}, !.database = TRUE,
                   !.ticks = TRUE],
      \* several short browser calls without a database
      [Idle EXCEPT !.browsers = MaxConns, !.events = {"stop"}],
      \* two start events on one connection, with call identifiers that may
      \* differ
      [Idle EXCEPT !.conns = 1, !.sessions = 2, !.restarts = TRUE,
                   !.callIds = CallIds],
      \* a deployment that lacks the recognition key, the language-model key
      \* or both, with a caller and a browser waiting to connect
      [Idle EXCEPT !.conns = 1, !.browsers = 1, !.deepgramApiKey = FALSE],
      [Idle EXCEPT !.conns = 1, !.browsers = 1, !.geminiApiKey = FALSE],
      [Idle EXCEPT !.conns = 1, !.browsers = 1, !.deepgramApiKey = FALSE,
                   !.geminiApiKey = FALSE] }

\* Both handlers after construction: empty registries, nothing pending.
Constructed ==
    /\ sessions = [k \in Keys |-> 0]
    /\ objs = <<>>
    /\ stt = <<>>
    /\ conns = <<>>
    /\ starts = <<>>
    /\ greetTimers = {}
    /\ silenceTimers = {}
    /\ vadCount = 0
    /\ tasks = EmptyBag
    /\ last = Ran("init", 0, 0, <<>>)
    /\ browser = [sessions |-> [id \in BrowserIds |-> 0], objs |-> <<>>,
                  streams |-> <<>>, conns |-> <<>>, timers |-> {},
                  tasks |-> EmptyBag, last |-> BrowserRan("init", 0, 0, <<>>)]

\* The framer before it is handed the buffer buf.
Framer(buf) == [buffer |-> buf, out |-> <<>>, done |-> FALSE]

\* sarvamTTS holding the decoded audio buffer buf (line 61), before detection.
Codec(buf) ==
    [buffer |-> buf, pc |-> "detect", sourceFormat |-> "none",
     wavefile |-> <<>>, primary |-> "none", ffmpegArgs |-> <<>>, spawned |-> 0,
     stdin |-> <<>>, exit |-> "none", result |-> "none", ulawBuffer |-> <<>>]

\* encodeMuLaw before it is called with the sample s.
MuLaw(s) == [sample |-> s, ulawbyte |-> -1, done |-> FALSE]

\* A provider name that is not given: options.provider or TTS_PROVIDER undefined.
NoProvider == "undefined"

\* generateTTS before it is called with options.provider = op, while
\* process.env.TTS_PROVIDER = ev and an ElevenLabs API key is configured or not.
Tts(op, ev, key) ==
    [options |-> [provider |-> op], TTS_PROVIDER |-> ev, apiKey |-> key,
     pc |-> "idle", provider |-> NoProvider, calls |-> <<>>,
     outcome |-> "none", result |-> "none"]

\* The contacts of the campaign, numbered in the order of created_at.
MaxContacts == 2
Contacts == 1..MaxContacts

\* CampaignService after createCampaign and addContacts: a draft campaign
\* whose contacts are all pending, and nothing in activeCampaigns.  starts
\* and runs are the calls of startCampaign and processCampaign under way.
Campaign ==
    [status |-> "draft",
     contacts |-> [c \in Contacts |-> [status |-> "pending", attempts |-> 0,
                                       dialed |-> 0]],
     activeCampaigns |-> "none",
     started |-> 0, starts |-> EmptyBag, runs |-> EmptyBag, pauses |-> 0]

Init ==
    /\ Constructed
    /\ env \in Scenarios
    /\ framer = Framer(<<>>)
    /\ codec = Codec(<<>>)
    /\ mulaw = MuLaw(0)
    /\ tts = Tts(NoProvider, NoProvider, FALSE)
    /\ campaign = Campaign

Next ==
    \/ Connect
    \/ \E n \in 1..MaxConns, cid \in env.callIds \cup {NoId}, sid \in env.sids,
          agent \in env.agents :
         StartEvent(n, cid, sid, agent)
    \/ \E i \in 1..MaxSessions : StartResume(i)
    \/ \E k \in 1..MaxSessions, d \in TranscriptData :
         /\ d.is_final \/ d.transcript \in env.interims
         /\ Transcript(k, d)
    \/ \E k \in 1..MaxSessions : VoiceActivity(k)
    \/ \E t \in silenceTimers : SilenceTimerFires(t)
    \/ \E t \in greetTimers : GreetingTimerFires(t)
    \/ \E t \in BagToSet(tasks), r \in LLMResults : LLMReturns(t, r)
    \/ \E t \in BagToSet(tasks), audio \in env.audio, throws \in BOOLEAN :
         SynthReturns(t, audio, throws)
    \/ \E n \in 1..MaxConns, payload \in env.payloads : MediaEvent(n, payload)
    \/ \E n \in 1..MaxConns : StopEvent(n)
    \/ \E n \in 1..MaxConns : MarkEvent(n)
    \/ \E n \in 1..MaxConns : CloseEvent(n)
    \/ \E id \in BrowserIds, agent \in env.agents : BrowserConnect(id, agent)
    \/ \E n \in 1..MaxConns : BrowserAgentReturns(n)
    \/ \E n \in 1..MaxConns, logged \in BOOLEAN : BrowserSetup(n, logged)
    \/ \E n \in 1..MaxConns : BrowserGreetingTimer(n)
    \/ \E t \in BagToSet(browser.tasks), audio \in env.audio :
         BrowserSynthReturns(t, audio)
    \/ \E o \in 1..MaxConns : BrowserSpeakingTimer(o)
    \/ \E k \in 1..MaxConns, d \in TranscriptData, throws \in BOOLEAN :
         BrowserTranscript(k, d, throws)
    \/ \E t \in BagToSet(browser.tasks), r \in LLMResults :
         BrowserLLMReturns(t, r)
    \/ \E n \in 1..MaxConns, event \in env.events :
         BrowserMessage(n, event)
    \/ \E n \in 1..MaxConns : BrowserClose(n)
    \/ \E n \in 1..MaxConns, updated \in BOOLEAN : BrowserCloseResumes(n, updated)
    \/ \E n \in 1..MaxConns : BrowserKeepAlive(n)

Spec == Init /\ [][Next]_vars

(***************************************************************************)
(* One telephone call that is left to run: the stream identifier of its    *)
(* start event may be missing, the caller says one sentence and never      *)
(* hangs up.  Timers fire, the language-model and synthesis calls return   *)
(* and the peer echoes every mark it was sent: each of these is a callback *)
(* the event loop runs once it is due, which weak fairness states.         *)
(***************************************************************************)
LiveCall ==
    [Idle EXCEPT !.conns = 1, !.sessions = 1, !.finals = 1, !.sids = StreamSids]

LiveInit ==
    /\ Constructed
    /\ env = LiveCall
    /\ framer = Framer(<<>>)
    /\ codec = Codec(<<>>)
    /\ mulaw = MuLaw(0)
    /\ tts = Tts(NoProvider, NoProvider, FALSE)
    /\ campaign = Campaign

GreetingTimerDue == \E t \in greetTimers : GreetingTimerFires(t)

LLMCallDone == \E t \in BagToSet(tasks), r \in LLMResults : LLMReturns(t, r)

SynthCallDone ==
    \E t \in BagToSet(tasks), audio \in env.audio, throws \in BOOLEAN :
       SynthReturns(t, audio, throws)

MarkEchoed == \E n \in 1..MaxConns : MarkEvent(n)

LiveNext ==
    \/ Connect
    \/ \E n \in 1..MaxConns, cid \in env.callIds, sid \in env.sids :
         StartEvent(n, cid, sid, FALSE)
    \/ \E k \in 1..MaxSessions, d \in TranscriptData :
         /\ d.is_final
         /\ Transcript(k, d)
    \/ GreetingTimerDue
    \/ LLMCallDone
    \/ SynthCallDone
    \/ MarkEchoed

LiveSpec ==
    /\ LiveInit
    /\ [][LiveNext]_vars
    /\ WF_vars(GreetingTimerDue)
    /\ WF_vars(LLMCallDone)
    /\ WF_vars(SynthCallDone)
    /\ WF_vars(MarkEchoed)

(***************************************************************************)
(* The framing loop of sendAudioToTwilio as a function of the buffer: it   *)
(* is handed one buffer of every length up to MaxBytes, on a started       *)
(* session that nobody interrupts.                                         *)
(***************************************************************************)
StartedSession ==
    [NewSession("CA1", 1) EXCEPT !.streamSid = "MZ1", !.isReady = TRUE]

\* The media frames sendAudioToTwilio sends for the buffer buf, each with the
\* payload it slices from the encoded buffer (lines 389-408).
FramesOf(buf) ==
    LET base64Audio == Base64(buf)
        r == sendAudioToTwilio(StartedSession, "reply", FALSE, Len(buf), FALSE)
        media == SelectSeq(r.msgs, LAMBDA m : m.ev = "media")
    IN  [i \in 1..Len(media) |->
           [off |-> media[i].off, len |-> media[i].len,
            payload |-> slice(base64Audio, media[i].off,
                              media[i].off + chunkSize)]]

FramerInit ==
    /\ Constructed
    /\ env = Idle
    /\ framer \in { Framer(AudioBuffer(n)) : n \in 1..MaxBytes }
    /\ codec = Codec(<<>>)
    /\ mulaw = MuLaw(0)
    /\ tts = Tts(NoProvider, NoProvider, FALSE)
    /\ campaign = Campaign

FramerSend ==
    /\ ~framer.done
    /\ framer' = [framer EXCEPT !.out = FramesOf(framer.buffer), !.done = TRUE]
    /\ UNCHANGED <<sessions, objs, stt, conns, starts, greetTimers, silenceTimers,
                   vadCount, tasks, last, browser, env, codec, mulaw,
                   tts, campaign>>

FramerNext == FramerSend

FramerSpec == FramerInit /\ [][FramerNext]_vars

(***************************************************************************)
(* The codec pipeline of tts_sarvam.js: detectAudioFormat, convertToUlaw   *)
(* and encodeMuLaw.  JavaScript's bit operators work on the 32-bit two's   *)
(* complement of their operands; they are computed here on integers.       *)
(***************************************************************************)
RECURSIVE AndNat(_, _)
\* a & b for naturals
AndNat(a, b) ==
    IF a = 0 \/ b = 0 THEN 0
    ELSE (a % 2) * (b % 2) + 2 * AndNat(a \div 2, b \div 2)

\* a & b, for a non-negative mask b below 2^16
BitAnd(a, b) == AndNat(a % 65536, b)

\* a | b for naturals
BitOr(a, b) == a + b - AndNat(a, b)

\* ~a
BitNot(a) == -a - 1

RECURSIVE Pow2(_)
Pow2(n) == IF n = 0 THEN 1 ELSE 2 * Pow2(n - 1)

\* a >> n, the arithmetic shift
ShiftRight(a, n) == a \div Pow2(n)

\* a << n, for results below 2^31
ShiftLeft(a, n) == a * Pow2(n)

\* The bytes the signatures are made of, and one byte (0xDF) whose top three
\* bits are not all set: "I" "D" "3" 0xFF 0xE0 0xDF "R" "F".
HeaderBytes == {73, 68, 51, 255, 224, 223, 82, 70}

\* All buffers of exactly n such bytes.
RECURSIVE BuffersOfLen(_)
BuffersOfLen(n) ==
    IF n = 0 THEN {<<>>}
    ELSE { Append(b, x) : b \in BuffersOfLen(n - 1), x \in HeaderBytes }

HeaderBuffers == UNION { BuffersOfLen(n) : n \in 0..MaxHeader }

\* A variant of detectAudioFormat without the class of short buffers: they
\* are taken for raw PCM; C24 as amended does not hold of it.
detectAudioFormat_ShortIsPcm(buffer) ==
    IF Len(buffer) < 4 THEN "s16le"
    ELSE IF buffer[1] = 73 /\ buffer[2] = 68 /\ buffer[3] = 51 THEN "mp3"
    ELSE IF buffer[1] = 255 /\ BitAnd(buffer[2], 224) = 224 THEN "mp3"
    ELSE IF buffer[1] = 82 /\ buffer[2] = 73 /\ buffer[3] = 70 /\ buffer[4] = 70
    THEN "wav"
    ELSE "s16le"

\* A variant of detectAudioFormat that takes every buffer starting with 0xFF
\* for an MPEG stream; C25 does not hold of it.
detectAudioFormat_AnyFF(buffer) ==
    IF Len(buffer) < 4 THEN "unknown"
    ELSE IF buffer[1] = 73 /\ buffer[2] = 68 /\ buffer[3] = 51 THEN "mp3"
    ELSE IF buffer[1] = 255 THEN "mp3"
    ELSE IF buffer[1] = 82 /\ buffer[2] = 73 /\ buffer[3] = 70 /\ buffer[4] = 70
    THEN "wav"
    ELSE "s16le"

\* detectAudioFormat(buffer), lines 98-116; buffer[0] is buffer[1] here
detectAudioFormat(buffer) ==
    IF Len(buffer) < 4 THEN "unknown"
    ELSE IF buffer[1] = 73 /\ buffer[2] = 68 /\ buffer[3] = 51 THEN "mp3"
    ELSE IF buffer[1] = 255 /\ BitAnd(buffer[2], 224) = 224 THEN "mp3"
    ELSE IF buffer[1] = 82 /\ buffer[2] = 73 /\ buffer[3] = 70 /\ buffer[4] = 70
    THEN "wav"
    ELSE "s16le"

\* The samples of a 16-bit array.
Int16 == -32768..32767

\* encodeMuLaw(sample), lines 246-286.  The loop of lines 261-267 assigns
\* exponent, and lines 270-277 assign it again whatever it was.
encodeMuLaw(sample) ==
    LET sign == BitAnd(ShiftRight(sample, 8), 128)
        magnitude == IF sign # 0 THEN -sample ELSE sample
        clipped == IF magnitude > CLIP THEN CLIP ELSE magnitude
        biased == clipped + BIAS
        exponent == IF biased > 32767 THEN 7
                    ELSE IF biased > 16383 THEN 6
                    ELSE IF biased > 8191 THEN 5
                    ELSE IF biased > 4095 THEN 4
                    ELSE IF biased > 2047 THEN 3
                    ELSE IF biased > 1023 THEN 2
                    ELSE IF biased > 511 THEN 1
                    ELSE 0
        mantissa == BitAnd(ShiftRight(biased, exponent + 3), 15)
        ulawbyte == BitNot(BitOr(BitOr(sign, ShiftLeft(exponent, 4)), mantissa))
    IN  BitAnd(ulawbyte, 255)

\* The sample arrays wav.getSamples hands back (line 144); what the library
\* computes from the buffer is not modelled.
PcmSamples == {<<>>, <<0, -1, 200, -32768>>}

\* The arguments ffmpeg is started with (lines 176-203).
ffmpegArgsFor(sourceFormat) ==
    IF sourceFormat \in {"s16le", "unknown"}
    THEN <<"-f", "s16le", "-ar", "24000", "-ac", "1", "-i", "pipe:0",
           "-ar", "8000", "-ac", "1", "-acodec", "pcm_mulaw", "-f", "mulaw",
           "-loglevel", "error", "pipe:1">>
    ELSE <<"-f", IF sourceFormat = "wav" THEN "wav" ELSE "mp3", "-i", "pipe:0",
           "-ar", "8000", "-ac", "1", "-acodec", "pcm_mulaw", "-f", "mulaw",
           "-af", "volume=2.0", "-loglevel", "error", "pipe:1">>

\* OPTION 2 of convertToUlaw up to the return of the promise (lines 171-239):
\* ffmpeg is spawned and the buffer written to its standard input.
spawnFfmpeg(c) ==
    [c EXCEPT !.pc = "ffmpeg",
              !.ffmpegArgs = ffmpegArgsFor(c.sourceFormat),
              !.spawned = @ + 1,
              !.stdin = c.buffer]

\* A variant of convertToUlaw whose catch of the wavefile error (line 164)
\* rejects instead of falling through; C28 does not hold of it.
convertToUlaw_NoFallback(c, throws, samples) ==
    IF c.sourceFormat # "mp3" /\ c.sourceFormat \in {"wav", "s16le", "unknown"}
    THEN LET c1 == [c EXCEPT !.wavefile =
                        IF c.sourceFormat = "wav" THEN <<"fromBuffer">>
                        ELSE <<"fromScratch", "1", "24000", "16">>]
         IN  IF throws
             THEN [c1 EXCEPT !.primary = "threw", !.pc = "done",
                             !.result = "rejected"]
             ELSE [c1 EXCEPT !.primary = "ok", !.pc = "done",
                             !.result = "resolved",
                             !.ulawBuffer = [i \in 1..Len(samples) |->
                                               encodeMuLaw(samples[i])]]
    ELSE spawnFfmpeg(c)

\* convertToUlaw(audioBuffer, sourceFormat) up to its return or its first wait
\* (lines 118-239); throws: a call of the wavefile library throws, samples:
\* what getSamples returns otherwise.
convertToUlaw(c, throws, samples) ==
    IF c.sourceFormat # "mp3" /\ c.sourceFormat \in {"wav", "s16le", "unknown"}
    THEN LET c1 == [c EXCEPT !.wavefile =
                        IF c.sourceFormat = "wav" THEN <<"fromBuffer">>
                        ELSE <<"fromScratch", "1", "24000", "16">>]
         IN  IF throws
             THEN spawnFfmpeg([c1 EXCEPT !.primary = "threw"])
             ELSE [c1 EXCEPT !.primary = "ok", !.pc = "done",
                             !.result = "resolved",
                             !.ulawBuffer = [i \in 1..Len(samples) |->
                                               encodeMuLaw(samples[i])]]
    ELSE spawnFfmpeg(c)

\* ffmpeg.on('close') with the exit code (lines 219-229)
ffmpegClose(c, code) ==
    [c EXCEPT !.pc = "done", !.exit = IF code = 0 THEN "0" ELSE "nonzero",
              !.result = IF code = 0 THEN "resolved" ELSE "rejected"]

\* ffmpeg.on('error') (lines 231-234)
ffmpegError(c) ==
    [c EXCEPT !.pc = "done", !.exit = "error", !.result = "rejected"]

CodecUnchanged ==
    UNCHANGED <<sessions, objs, stt, conns, starts, greetTimers, silenceTimers,
                vadCount, tasks, last, browser, env, framer, mulaw,
                   tts, campaign>>

\* sarvamTTS line 65
DetectFormat ==
    /\ codec.pc = "detect"
    /\ codec' = [codec EXCEPT !.sourceFormat = detectAudioFormat(codec.buffer),
                              !.pc = "convert"]
    /\ CodecUnchanged

\* sarvamTTS line 75
ConvertToUlaw(throws, samples) ==
    /\ codec.pc = "convert"
    /\ codec' = convertToUlaw(codec, throws, samples)
    /\ CodecUnchanged

FfmpegClose(code) ==
    /\ codec.pc = "ffmpeg"
    /\ codec' = ffmpegClose(codec, code)
    /\ CodecUnchanged

FfmpegError ==
    /\ codec.pc = "ffmpeg"
    /\ codec' = ffmpegError(codec)
    /\ CodecUnchanged

CodecInit ==
    /\ Constructed
    /\ env = Idle
    /\ framer = Framer(<<>>)
    /\ codec \in { Codec(buf) : buf \in HeaderBuffers }
    /\ mulaw = MuLaw(0)
    /\ tts = Tts(NoProvider, NoProvider, FALSE)
    /\ campaign = Campaign

CodecNext ==
    \/ DetectFormat
    \/ \E throws \in BOOLEAN, samples \in PcmSamples :
         ConvertToUlaw(throws, samples)
    \/ \E code \in {0, 1} : FfmpegClose(code)
    \/ FfmpegError

CodecSpec == CodecInit /\ [][CodecNext]_vars

\* encodeMuLaw as a function of the sample: it is called once with every
\* 16-bit sample.
MuLawInit ==
    /\ Constructed
    /\ env = Idle
    /\ framer = Framer(<<>>)
    /\ codec = Codec(<<>>)
    /\ mulaw \in { MuLaw(s) : s \in Int16 }
    /\ tts = Tts(NoProvider, NoProvider, FALSE)
    /\ campaign = Campaign

MuLawEncode ==
    /\ ~mulaw.done
    /\ mulaw' = [mulaw EXCEPT !.ulawbyte = encodeMuLaw(mulaw.sample),
                              !.done = TRUE]
    /\ UNCHANGED <<sessions, objs, stt, conns, starts, greetTimers, silenceTimers,
                   vadCount, tasks, last, browser, env, framer, codec,
                   tts, campaign>>

MuLawNext == MuLawEncode

MuLawSpec == MuLawInit /\ [][MuLawNext]_vars

(***************************************************************************)
(* tts_controller.js: generateTTS, called once with every combination of   *)
(* options.provider and TTS_PROVIDER; the provider it calls then succeeds  *)
(* or fails.                                                               *)
(***************************************************************************)
ProviderNames == {NoProvider, "", "sarvam", "elevenlabs", "Sarvam", "azure"}

\* a || b on strings: undefined and the empty string are falsy
Or(a, b) == IF a \in {NoProvider, ""} THEN b ELSE a

\* generateSarvamTTS (lines 53-61): awaits sarvamTTS
generateSarvamTTS(T) ==
    [T EXCEPT !.calls = Append(@, "sarvam"), !.pc = "sarvamTTS"]

\* the catch block of generateTTS (lines 34-44): logs and rethrows; the
\* fallback to ElevenLabs is commented out
onProviderError_FallsBack(T) ==
    IF T.provider = "sarvam" /\ T.calls = <<"sarvam">>
    THEN [T EXCEPT !.calls = Append(@, "elevenlabs"), !.pc = "fetch"]
    ELSE [T EXCEPT !.pc = "done", !.result = "error"]

onProviderError(T) ==
    [T EXCEPT !.pc = "done", !.result = "error"]

\* generateElevenLabsTTS (lines 70-123): throws at once without an API key,
\* else awaits the request
generateElevenLabsTTS(T) ==
    LET T1 == [T EXCEPT !.calls = Append(@, "elevenlabs")]
    IN  IF ~T.apiKey
        THEN onProviderError([T1 EXCEPT !.outcome = "fail"])
        ELSE [T1 EXCEPT !.pc = "fetch"]

\* generateTTS (lines 22-33) up to the await of the provider
generateTTS(T) ==
    LET provider == Or(Or(T.options.provider, T.TTS_PROVIDER), "elevenlabs")
        T1 == [T EXCEPT !.provider = provider]
    IN  IF provider = "sarvam"
        THEN generateSarvamTTS(T1)
        ELSE generateElevenLabsTTS(T1)

\* the provider's promise settles: generateTTS returns the buffer, or its
\* catch block runs (a response that is not ok makes the request throw)
providerSettles(T, ok) ==
    IF ok
    THEN [T EXCEPT !.outcome = "ok", !.pc = "done", !.result = "audio"]
    ELSE onProviderError([T EXCEPT !.outcome = "fail"])

TtsUnchanged ==
    UNCHANGED <<sessions, objs, stt, conns, starts, greetTimers, silenceTimers,
                vadCount, tasks, last, browser, env, framer, codec, mulaw,
                campaign>>

GenerateTTS ==
    /\ tts.pc = "idle"
    /\ tts' = generateTTS(tts)
    /\ TtsUnchanged

ProviderSettles ==
    /\ tts.pc \in {"sarvamTTS", "fetch"}
    /\ \E ok \in BOOLEAN : tts' = providerSettles(tts, ok)
    /\ TtsUnchanged

TtsInit ==
    /\ Constructed
    /\ env = Idle
    /\ framer = Framer(<<>>)
    /\ codec = Codec(<<>>)
    /\ mulaw = MuLaw(0)
    /\ tts \in { Tts(op, ev, key) : op \in ProviderNames, ev \in ProviderNames,
                                     key \in BOOLEAN }
    /\ campaign = Campaign

TtsNext == GenerateTTS \/ ProviderSettles

TtsSpec == TtsInit /\ [][TtsNext]_vars

(***************************************************************************)
(* campaignService.js: one campaign with its contacts.  startCampaign and  *)
(* pauseCampaign are called from outside at any time; every await of       *)
(* startCampaign and processCampaign is a step of its own, at which the    *)
(* statement awaited takes effect and the code after it runs up to the     *)
(* next await.  The wallet service answers each balance check either way.  *)
(***************************************************************************)
MaxStarts == 2      \* calls of startCampaign
MaxPauses == 1      \* calls of pauseCampaign from outside

\* the bag with one old replaced by new
Swap(bag, old, new) == (bag (-) SetToBag({old})) (+) SetToBag({new})

\* startCampaign (lines 79-84) up to the await of the 1.00 balance check
startCampaign(K) ==
    [K EXCEPT !.starts = @ (+) SetToBag({[pc |-> "balance", allowed |-> FALSE]}),
              !.started = @ + 1]

\* startCampaign (lines 82-86, 100-103): the balance check returns; a check
\* that is not allowed makes the call throw
startBalanceReturns(K, start, allowed) ==
    IF ~allowed
    THEN [K EXCEPT !.starts = @ (-) SetToBag({start})]
    ELSE [K EXCEPT !.starts = Swap(@, start, [pc |-> "update", allowed |-> TRUE])]

\* processCampaign (lines 110-121) up to its first await
processCampaign(K) ==
    [K EXCEPT !.activeCampaigns = "running",
              !.runs = @ (+) SetToBag({[pc |-> "load", contacts |-> <<>>, i |-> 0,
                                        check |-> [contact |-> 0, allowed |-> FALSE],
                                        stop |-> "none"]})]

\* startCampaign (lines 88-98): UPDATE ... WHERE status = 'draft' returns and
\* processCampaign is called, without a look at the rows the update changed
startUpdateReturns(K, start) ==
    processCampaign([K EXCEPT !.status = IF @ = "draft" THEN "running" ELSE @,
                              !.starts = @ (-) SetToBag({start})])

\* SELECT ... WHERE status = 'pending' ORDER BY created_at (lines 141-146)
RECURSIVE PendingFrom(_, _)
PendingFrom(K, c) ==
    IF c > MaxContacts THEN <<>>
    ELSE (IF K.contacts[c].status = "pending" THEN <<c>> ELSE <<>>)
         \o PendingFrom(K, c + 1)

\* the head of the loop over the contacts (lines 151-160) and, when the loop
\* ends, the call of completeCampaign (line 179) up to its await: where the
\* run is next
loopHead(K, run) ==
    IF run.i > Len(run.contacts)
    THEN [run EXCEPT !.pc = "complete"]
    ELSE IF K.activeCampaigns # "running"
    THEN [run EXCEPT !.pc = "complete",
                     !.stop = IF K.activeCampaigns = "paused"
                              THEN "paused" ELSE "gone"]
    ELSE [run EXCEPT !.pc = "check"]

\* processCampaign (lines 114-148): the three SELECTs return, or one throws
\* and the catch block issues UPDATE ... 'cancelled' (lines 181-186)
runLoaded(K, run, throws) ==
    [K EXCEPT !.runs =
        Swap(@, run,
             IF throws
             THEN [run EXCEPT !.pc = "cancel"]
             ELSE loopHead(K, [run EXCEPT !.contacts = PendingFrom(K, 1),
                                          !.i = 1]))]

\* processCampaign (lines 159-167): the 0.10 balance check returns; makeCall
\* is called, or pauseCampaign
runBalanceReturns_NoCheck(K, run, allowed) ==
    [K EXCEPT !.runs =
        Swap(@, run,
             [run EXCEPT !.check = [contact |-> run.contacts[run.i],
                                    allowed |-> allowed],
                         !.pc = "calling"])]

runBalanceReturns(K, run, allowed) ==
    LET run1 == [run EXCEPT !.check = [contact |-> run.contacts[run.i],
                                       allowed |-> allowed]]
    IN  [K EXCEPT !.runs =
            Swap(@, run,
                 IF ~allowed
                 THEN [run1 EXCEPT !.pc = "pausing", !.stop = "balance"]
                 ELSE [run1 EXCEPT !.pc = "calling"])]

\* pauseCampaign (lines 275-285) from its UPDATE on
pauseCampaign(K) ==
    [K EXCEPT !.status = "paused",
              !.activeCampaigns = IF @ = "none" THEN "none" ELSE "paused"]

\* processCampaign (lines 163-165): pauseCampaign returns, break, and
\* completeCampaign is called (line 179)
runPauseReturns(K, run) ==
    [pauseCampaign(K) EXCEPT
        !.runs = Swap(@, run, [run EXCEPT !.pc = "complete"])]

\* makeCall (lines 195-270) returns, the wait between calls passes (lines
\* 170-175) and the loop goes on: the contact is 'calling' after a call that
\* Twilio accepted, 'failed' after one that threw
makeCallReturns(K, run, ok) ==
    LET c == run.contacts[run.i]
        K1 == [K EXCEPT !.contacts[c].status = IF ok THEN "calling" ELSE "failed",
                        !.contacts[c].attempts = @ + 1,
                        !.contacts[c].dialed = @ + (IF ok THEN 1 ELSE 0)]
    IN  [K1 EXCEPT !.runs = Swap(@, run, loopHead(K1, [run EXCEPT !.i = @ + 1]))]

\* completeCampaign (lines 290-296) returns and the finally block runs
\* (lines 187-189): processCampaign has finished
runCompleteReturns(K, run) ==
    [K EXCEPT !.status = "completed", !.activeCampaigns = "none",
              !.runs = @ (-) SetToBag({run})]

\* the catch block's UPDATE returns (lines 183-186), then the finally block
runCancelReturns(K, run) ==
    [K EXCEPT !.status = "cancelled", !.activeCampaigns = "none",
              !.runs = @ (-) SetToBag({run})]

CampaignBecomes(K) ==
    /\ campaign' = K
    /\ UNCHANGED <<sessions, objs, stt, conns, starts, greetTimers, silenceTimers,
                   vadCount, tasks, last, browser, env, framer, codec, mulaw,
                   tts>>

StartCampaign ==
    /\ campaign.started < MaxStarts
    /\ CampaignBecomes(startCampaign(campaign))

StartBalanceReturns ==
    \E start \in BagToSet(campaign.starts), allowed \in BOOLEAN :
       /\ start.pc = "balance"
       /\ CampaignBecomes(startBalanceReturns(campaign, start, allowed))

StartUpdateReturns ==
    \E start \in BagToSet(campaign.starts) :
       /\ start.pc = "update"
       /\ CampaignBecomes(startUpdateReturns(campaign, start))

RunLoaded ==
    \E run \in BagToSet(campaign.runs), throws \in BOOLEAN :
       /\ run.pc = "load"
       /\ CampaignBecomes(runLoaded(campaign, run, throws))

RunBalanceReturns ==
    \E run \in BagToSet(campaign.runs), allowed \in BOOLEAN :
       /\ run.pc = "check"
       /\ CampaignBecomes(runBalanceReturns(campaign, run, allowed))

RunPauseReturns ==
    \E run \in BagToSet(campaign.runs) :
       /\ run.pc = "pausing"
       /\ CampaignBecomes(runPauseReturns(campaign, run))

MakeCallReturns ==
    \E run \in BagToSet(campaign.runs), ok \in BOOLEAN :
       /\ run.pc = "calling"
       /\ CampaignBecomes(makeCallReturns(campaign, run, ok))

RunCompleteReturns ==
    \E run \in BagToSet(campaign.runs) :
       /\ run.pc = "complete"
       /\ CampaignBecomes(runCompleteReturns(campaign, run))

RunCancelReturns ==
    \E run \in BagToSet(campaign.runs) :
       /\ run.pc = "cancel"
       /\ CampaignBecomes(runCancelReturns(campaign, run))

PauseCampaign ==
    /\ campaign.pauses < MaxPauses
    /\ CampaignBecomes([pauseCampaign(campaign) EXCEPT !.pauses = @ + 1])

CampaignInit ==
    /\ Constructed
    /\ env = Idle
    /\ framer = Framer(<<>>)
    /\ codec = Codec(<<>>)
    /\ mulaw = MuLaw(0)
    /\ tts = Tts(NoProvider, NoProvider, FALSE)
    /\ campaign = Campaign

CampaignNext ==
    \/ StartCampaign
    \/ StartBalanceReturns
    \/ StartUpdateReturns
    \/ RunLoaded
    \/ RunBalanceReturns
    \/ RunPauseReturns
    \/ MakeCallReturns
    \/ RunCompleteReturns
    \/ RunCancelReturns
    \/ PauseCampaign

CampaignSpec == CampaignInit /\ [][CampaignNext]_vars

(***************************************************************************)
(* Properties.                                                             *)
(***************************************************************************)
\* The outstanding calls that belong to user-utterance replies of session o.
RepliesInFlight(o) ==
    LET D == { t \in BagToSet(tasks) : t.session = o /\ t.kind = "reply" }
    IN  BagCardinality([t \in D |-> tasks[t]])

\* C1: for every session at most one reply cycle (language-model call followed
\* by synthesis and send) is in flight at any instant.
C1_OneReplyCycleInFlight ==
    \A o \in 1..Len(objs) : RepliesInFlight(o) <= 1

\* C2: once handleInterruption has run while a reply was in flight, no media
\* frame of that reply is put on the wire afterwards.
C2_NoFrameOfInterruptedReply ==
    \A i \in 1..Len(last.out) :
       last.out[i].ev = "media" => ~last.out[i].hit

\* The step was the handling of a non-blank interim transcript.
InterimStep == last'.op \in {"interim", "interrupt"}

\* The step left everything but the last interim transcript of session o as it was.
OnlyInterimTextChanged(o) ==
    /\ objs' = [objs EXCEPT ![o].interimTranscript = objs'[o].interimTranscript]
    /\ last'.out = <<>>
    /\ UNCHANGED <<sessions, stt, conns, starts, greetTimers, silenceTimers,
                   vadCount, tasks, browser>>

\* C3: of the significant interim transcripts that arrive while one reply is
\* being spoken, the first one trips the interruption and puts exactly one clear
\* on the wire; every further interim transcript that arrives before a new reply
\* starts sends no clear and changes nothing but the last interim text.
C3_OneClearPerReply ==
    [][ InterimStep =>
          LET o == last'.session
              d == objs'[o].interimTranscript
          IN  /\ objs[o].tripped =>
                   last'.op = "interim" /\ OnlyInterimTextChanged(o)
              /\ (~objs[o].tripped /\ objs[o].isAISpeaking
                    /\ Len(d) > SignificanceThreshold) =>
                   /\ last'.op = "interrupt"
                   /\ objs'[o].tripped
                   /\ conns[objs[o].ws].ws = "open" =>
                        /\ Len(last'.out) = 1
                        /\ last'.out[1].ev = "clear" ]_vars

\* C3 witness: a significant interim transcript arrived after the interruption
\* had tripped and before a new reply started, and was only recorded.
C3_Witness ==
    /\ last.op = "interim"
    /\ objs[last.session].tripped
    /\ Len(objs[last.session].interimTranscript) > SignificanceThreshold

\* C4: handleInterruption is invoked exactly when a non-blank interim transcript
\* arrives while isAISpeaking is true and its length exceeds the threshold; any
\* other interim transcript only updates interimTranscript, and a blank one
\* changes nothing at all.
C4_InterruptIffSpeakingAndSignificant ==
    [][ LET o == last'.session IN
        /\ last'.op = "interrupt" =>
             /\ objs[o].isAISpeaking
             /\ Len(objs'[o].interimTranscript) > SignificanceThreshold
             /\ Trim(objs'[o].interimTranscript) # <<>>
        /\ last'.op = "interim" =>
             /\ ~(objs[o].isAISpeaking
                    /\ Len(objs'[o].interimTranscript) > SignificanceThreshold)
             /\ OnlyInterimTextChanged(o)
        /\ last'.op = "blank" =>
             UNCHANGED <<sessions, objs, stt, conns, starts, greetTimers,
                         silenceTimers, vadCount, tasks, browser>> ]_vars

\* C4 witness: an interim transcript of exactly threshold length arrived while
\* the agent was speaking and did not interrupt it.
C4_Witness ==
    /\ last.op = "interim"
    /\ objs[last.session].isAISpeaking
    /\ Len(objs[last.session].interimTranscript) = SignificanceThreshold

\* C5: when handleInterruption returns, isAISpeaking is false, no buffer of the
\* session holds unflushed outbound audio, and one clear carrying the session's
\* streamSid has been sent.
C5_InterruptionPostcondition ==
    last.op = "interrupt" =>
       LET s == objs[last.session] IN
       /\ ~s.isAISpeaking
       /\ s.currentAudioChunks = <<>>
       /\ s.audioQueue = <<>>
       /\ s.conversationBuffer = <<>>
       /\ conns[s.ws].ws = "open" => last.out = <<ClearMsg(s)>>

\* C6: createSession for a call identifier that is present leaves the registered
\* session in place: a registry entry is only ever removed, never replaced.
C6_CreateKeepsExistingSession ==
    [][ \A c \in Keys :
          sessions[c] # 0 => sessions'[c] \in {0, sessions[c]} ]_vars

\* C7: endSession is idempotent in both handlers: on an identifier that is not
\* registered it changes nothing, a second call changes nothing after the
\* first, and no recognition stream is ever finished more than once.
C7_EndSessionIdempotent ==
    /\ \A c \in Keys :
          LET W1 == endSession(World, c) IN
          /\ sessions[c] = 0 => W1 = World
          /\ endSession(W1, c) = W1
          /\ \A k \in 1..Len(W1.stt) : W1.stt[k].finished <= 1
    /\ \A id \in BrowserIds :
          LET B1 == browserEndSession(browser, id) IN
          /\ browser.sessions[id] = 0 => B1 = browser
          /\ browserEndSession(B1, id) = B1
          /\ \A k \in 1..Len(B1.streams) : B1.streams[k].finished <= 1

\* C7 witness: the close listener of a browser connection called endSession for
\* a session that a stop message had already ended.
C7_Witness ==
    /\ browser.last.op = "closed"
    /\ browser.last.ended = 0
    /\ browser.objs[browser.last.session].ended
    /\ browser.streams[browser.objs[browser.last.session].sttStream].finished = 1

\* C8: endSession leaves the session's recognition stream finished and without
\* listeners, and none of the session's timers pending.
C8_EndSessionCancelsTimers ==
    \A o \in 1..Len(objs) :
       objs[o].ended =>
          /\ ~stt[o].listening
          /\ stt[o].finished >= 1
          /\ Pending(silenceTimers, objs[o].silenceTimer) = 0
          /\ \A t \in greetTimers : t.owner # o

\* C9: after endSession nothing is sent for the session and nothing is appended
\* to its context, whatever reply or greeting was outstanding.
C9_NothingAfterDestroy ==
    /\ ~last.lateAppend
    /\ \A i \in 1..Len(last.out) : ~last.out[i].late

\* C10: a session created after endSession removed one of the same call
\* identifier is not touched by what the earlier session left behind; in
\* particular it is greeted at most once.
C10_NewSessionGreetedOnce ==
    \A o \in 1..Len(objs) : objs[o].afterDestroy => objs[o].greeted <= 1

\* C11: once the transport of a connection is closed and its close handler has
\* run, the registry of neither handler holds a session that the connection
\* created, however many start events the connection delivered and wherever
\* its set-up stopped.
C11_ClosedConnectionLeavesNoSession ==
    /\ \A c \in Keys :
          sessions[c] # 0 => conns[objs[sessions[c]].ws].ws # "closed"
    /\ \A id \in BrowserIds :
          browser.sessions[id] # 0 =>
             LET n == browser.objs[browser.sessions[id]].ws IN
             browser.conns[n].ws # "closed" \/ browser.conns[n].closing

\* C12: isAISpeaking of a session is true exactly while a frame of its current
\* reply has gone out and neither the completion mark nor an interruption has
\* been handled since; it is not true while the synthesis of the reply is
\* pending and no frame has been sent.
C12_SpeakingIffFramesOut ==
    \A o \in 1..Len(objs) : objs[o].isAISpeaking <=> objs[o].playing

\* The sequence a is an initial part of the sequence b.
IsPrefix(a, b) == Len(a) <= Len(b) /\ SubSeq(b, 1, Len(a)) = a

\* C13: the context of a session only grows at its end, and in conversation
\* order: what it held earlier is an initial part of what it holds later, and
\* the agent turn that answers one user turn is appended before the agent turn
\* that answers the next user turn.
C13_ContextAppendOnlyInOrder ==
    [][ /\ \A o \in 1..Len(objs) :
             ObjLive(World, o)' => IsPrefix(objs[o].context, objs'[o].context)
        /\ ~last'.overtook ]_vars

\* The pending silence timers of session object o.
SilenceTimersOf(o) == { t \in silenceTimers : t.owner = o }

\* C14: a session has at most one silence timer pending; a voice-activity
\* marker leaves only the timer it started, the one started before being
\* cancelled; after a final transcript and after endSession the session has
\* none.
C14_OneSilenceTimer ==
    /\ \A o \in 1..Len(objs) : Cardinality(SilenceTimersOf(o)) <= 1
    /\ last.op = "vad" =>
          SilenceTimersOf(last.session) =
             {[handle |-> vadCount, owner |-> last.session]}
    /\ last.op = "final" => SilenceTimersOf(last.session) = {}
    /\ last.ended # 0 => SilenceTimersOf(last.ended) = {}

\* C14 witness: a voice-activity marker arrived while the timer of the marker
\* before it was pending, and cancelled it.
C14_Witness ==
    /\ last.op = "vad"
    /\ last.cancelled # 0
    /\ SilenceTimersOf(last.session) # {}

C16_FinalTranscriptHandling ==
    \A k \in 1..Len(stt), d \in TranscriptData :
       stt[k].listening =>
          LET W1 == onTranscript(World, k, d)
              o == conns[stt[k].conn].session
              userTurn == [role |-> "user", text |-> d.transcript]
          IN  /\ IsBlank(d) => [W1 EXCEPT !.last = last] = World
              /\ (d.is_final /\ ~IsBlank(d)) =>
                    /\ W1.objs[o].silenceTimer = 0
                    /\ Pending(W1.silenceTimers, objs[o].silenceTimer) = 0
                    /\ W1.objs[o].context = Append(objs[o].context, userTurn)
                    /\ \E t \in BagToSet(W1.tasks) :
                          /\ t.await = "llm"
                          /\ t.session = o
                          /\ t.turn = Len(W1.objs[o].context)
                          /\ W1.objs[o].context[t.turn] = userTurn
                          /\ W1.tasks = AddTask(tasks, t)

\* C16 witness: a non-blank final transcript arrived while a silence timer of
\* the session was pending.
C16_Witness ==
    /\ last.op = "final"
    /\ last.cancelled # 0
    /\ objs[last.session].silenceTimer = 0

\* C17: when the synthesis of the reply to a final transcript returns audio on
\* a started session whose socket is open, and no interruption ran while the
\* synthesis was pending, the context holds the user turn and then the agent
\* turn and the reply goes out as at least one media frame followed by one
\* completion mark, whatever inbound media frames arrived in the meantime.
C17_ReplySpokenDespiteInboundAudio ==
    LET s == objs[last.session] IN
    ( /\ last.op \in {"sent", "aborted", "queued", "threw"}
      /\ last.kind = "reply"
      /\ ~last.hit
      /\ s.isReady /\ s.streamSid # NoId /\ ~s.ended
      /\ conns[s.ws].ws = "open" ) =>
        /\ last.op = "sent"
        /\ Len(last.out) >= 2
        /\ \A i \in 1..Len(last.out) :
              last.out[i].ev = (IF i < Len(last.out) THEN "media" ELSE "mark")
        /\ \E i, j \in 1..Len(s.context) :
              i < j /\ s.context[i].role = "user" /\ s.context[j].role = "model"

\* C18: a reply whose audio arrives puts exactly one completion mark on the
\* socket, as the last message after all of its media frames, when and only
\* when every frame was sent; a reply whose send is aborted by
\* userSpeechDetected, queued, failed or never started puts no mark and no
\* frame on it.
C18_OneMarkAfterAllFrames ==
    \A o \in 1..Len(objs), audio \in AudioBytes \cup {-1}, throws \in BOOLEAN :
       LET r == speakResume(objs[o], "reply", FALSE, audio, throws)
           marks == SelectSeq(r.msgs, LAMBDA m : m.ev = "mark")
           media == SelectSeq(r.msgs, LAMBDA m : m.ev = "media")
           total == (Base64Len(audio) + chunkSize - 1) \div chunkSize
       IN  /\ Len(marks) <= 1
           /\ Len(marks) = 1 <=> r.st = "sent"
           /\ r.st = "sent" =>
                 /\ Len(media) = total
                 /\ Len(r.msgs) = total + 1
                 /\ r.msgs[Len(r.msgs)].ev = "mark"
           /\ r.st # "sent" => r.msgs = <<>>

\* C18 witness: a reply went out on an open socket as two media frames and the
\* completion mark.
C18_Witness ==
    /\ last.op = "sent"
    /\ last.kind = "reply"
    /\ Len(last.out) = 3
    /\ last.out[3].ev = "mark"

\* The concatenation of the payloads of the frames fs.
RECURSIVE Payloads(_)
Payloads(fs) == IF fs = <<>> THEN <<>> ELSE Head(fs).payload \o Payloads(Tail(fs))

\* C19: the frames of a non-empty buffer sent without interruption go out in
\* increasing offset order with none skipped, duplicated or reordered: every
\* frame but the last carries exactly 214 characters, the last one is not empty
\* and no larger, and the payloads put end to end are the base64 encoding of
\* the whole buffer.
C19_FramesCoverEncodedBuffer ==
    framer.done =>
       LET out == framer.out IN
       /\ Len(out) >= 1
       /\ out[1].off = 0
       /\ \A i \in 1..Len(out) - 1 :
             /\ Len(out[i].payload) = chunkSize
             /\ out[i + 1].off = out[i].off + chunkSize
       /\ Len(out[Len(out)].payload) \in 1..chunkSize
       /\ \A i \in 1..Len(out) : Len(out[i].payload) = out[i].len
       /\ Payloads(out) = Base64(framer.buffer)

\* C19 witness: a buffer went out as three frames, the last one shorter than
\* the others.
C19_Witness ==
    /\ framer.done
    /\ Len(framer.out) = 3
    /\ Len(framer.out[3].payload) < chunkSize

\* generateContent ended with an error.
LLMFailure == [ok |-> FALSE, text |-> <<>>]

\* A final transcript the recognizer may deliver next.
NextFinal == [has |-> TRUE, transcript |-> <<"h", "e", "l", "l", "o">>,
              is_final |-> TRUE]

\* C20: when the language-model call for a final transcript fails, the handler
\* goes on with the fixed apology in place of the reply: the apology is
\* appended to the context as the agent turn and handed to synthesis just as
\* the text of a successful call is, nothing else of the session changes, and
\* a later final transcript on the same stream is processed as usual.  The
\* same holds of the browser handler with its own apology.
C20_ApologyOnLLMFailure ==
    /\ \A t \in BagToSet(tasks) :
          t.await = "llm" =>
             LET o == t.session
                 W1 == onLLMReturn(World, t, callLLM(LLMFailure))
                 said == [role |-> "model", text |-> Apology]
             IN  /\ W1.objs[o].context = Append(objs[o].context, said)
                 /\ W1.tasks = AddTask(DelTask(tasks, t),
                                       [Task("synth", o, t.kind, Apology, FALSE)
                                          EXCEPT !.stale = MovedPast(objs[o], t)])
                 /\ W1.objs[o].isAISpeaking
                 /\ \A x \in LLMTexts :
                       LET W2 == onLLMReturn(World, t, callLLM([ok |-> TRUE,
                                                               text |-> x]))
                       IN  /\ W2.objs[o].context =
                                Append(objs[o].context, [role |-> "model", text |-> x])
                           /\ [W1.objs[o] EXCEPT !.context = <<>>] =
                                [W2.objs[o] EXCEPT !.context = <<>>]
                 /\ W1.stt = stt /\ W1.sessions = sessions /\ W1.conns = conns
                 /\ \A k \in 1..Len(stt) :
                       (stt[k].listening /\ conns[stt[k].conn].session = o) =>
                          onTranscript(W1, k, NextFinal).objs[o].context =
                             Append(W1.objs[o].context,
                                    [role |-> "user", text |-> NextFinal.transcript])
    /\ \A t \in BagToSet(browser.tasks) :
          t.await = "llm" =>
             LET o == t.session
                 B1 == browserOnLLMReturn(browser, t, browserCallLLM(LLMFailure))
                 said == [role |-> "model", text |-> BrowserApology]
             IN  /\ B1.objs[o].context = Append(browser.objs[o].context, said)
                 /\ B1.tasks = AddTask(DelTask(browser.tasks, t),
                                       Task("synth", o, "reply", BrowserApology,
                                            FALSE))
                 /\ B1.streams = browser.streams
                 /\ B1.sessions = browser.sessions

\* C20 witness: a final transcript was accepted on a session whose context
\* already held the apology for an earlier one.
C20_Witness ==
    /\ last.op = "final"
    /\ \E i \in 1..Len(objs[last.session].context) :
          objs[last.session].context[i] = [role |-> "model", text |-> Apology]

\* C21: the text of a language-model call that returns after the session has
\* moved past the request (it was interrupted or destroyed, or it accepted a
\* later final transcript, while the call was outstanding) is discarded: no
\* media frame goes out for it.
C21_StaleReplyDiscarded ==
    last.stale => \A i \in 1..Len(last.out) : last.out[i].ev # "media"

\* C22: when the synthesis of a reply fails (synthesizeTTS returns null), the
\* turn is skipped: nothing is sent for it, neither a media frame nor a mark,
\* the agent turn stays in the context, isAISpeaking is false afterwards, and
\* a later final transcript on the session is processed as usual.  In the
\* browser handler nothing is sent either and the context is left as it was.
C22_FailedSynthesisSkipsTurn ==
    /\ \A t \in BagToSet(tasks), throws \in BOOLEAN :
          (t.await = "synth" /\ t.kind = "reply") =>
             LET o == t.session
                 W1 == onSynthReturn(World, t, -1, throws)
             IN  /\ W1.last.out = <<>>
                 /\ W1.conns = conns
                 /\ W1.objs[o].context = objs[o].context
                 /\ \E i \in 1..Len(W1.objs[o].context) :
                       W1.objs[o].context[i] = [role |-> "model", text |-> t.text]
                 /\ ~W1.objs[o].isAISpeaking
                 /\ W1.stt = stt /\ W1.sessions = sessions
                 /\ W1.tasks = DelTask(tasks, t)
                 /\ \A k \in 1..Len(stt) :
                       (stt[k].listening /\ conns[stt[k].conn].session = o) =>
                          onTranscript(W1, k, NextFinal).objs[o].context =
                             Append(W1.objs[o].context,
                                    [role |-> "user", text |-> NextFinal.transcript])
    /\ \A t \in BagToSet(browser.tasks) :
          (t.await = "synth" /\ t.kind = "reply") =>
             LET B1 == browserOnSynthReturn(browser, t, -1)
             IN  /\ B1.last.out = <<>>
                 /\ B1.objs = browser.objs
                 /\ B1.streams = browser.streams
                 /\ B1.sessions = browser.sessions
                 /\ \E i \in 1..Len(B1.objs[t.session].context) :
                       B1.objs[t.session].context[i] =
                          [role |-> "model", text |-> t.text]

\* C22 witness: the synthesis of the reply to a final transcript failed on a
\* session that is registered and whose stream is listening.
C22_Witness ==
    /\ last.op = "skipped"
    /\ last.kind = "reply"
    /\ ~objs[last.session].ended
    /\ stt[objs[last.session].sttStream].listening
    /\ ~objs[last.session].isAISpeaking

\* C23: a start event that carries no call identifier never creates a session:
\* the registry is unchanged, no recognition stream is opened, no greeting is
\* scheduled, no agent lookup or other call is started, and the transport is
\* closed.  Likewise no handler exists, and so no connection is ever handled,
\* unless both the recognition and the language-model key were given.
C23_NoSessionWithoutCallId ==
    /\ \A n \in 1..Len(conns), sid \in StreamSids, agent \in BOOLEAN :
          conns[n].ws = "open" =>
             LET W1 == startEvent(World, n, NoId, sid, agent)
             IN  /\ W1.sessions = sessions
                 /\ W1.objs = objs
                 /\ W1.stt = stt
                 /\ W1.greetTimers = greetTimers
                 /\ W1.starts = starts
                 /\ W1.tasks = tasks
                 /\ W1.conns[n].ws = "closing"
    /\ (last.op = "start-refused" /\ last.conn \in 1..Len(conns)) =>
          conns[last.conn].ws # "open"
    /\ ~(env.deepgramApiKey /\ env.geminiApiKey) =>
          /\ constructor(env.deepgramApiKey, env.geminiApiKey) # "constructed"
          /\ conns = <<>> /\ browser.conns = <<>>
          /\ objs = <<>> /\ browser.objs = <<>>

\* C23 witness: a start event without call identifier was refused and its
\* transport is closing, with no session, stream, timer or call in existence.
C23_Witness ==
    /\ last.op = "start-refused"
    /\ conns[last.conn].ws = "closing"
    /\ objs = <<>> /\ stt = <<>> /\ greetTimers = {} /\ starts = <<>>
    /\ tasks = EmptyBag
    /\ \A k \in Keys : sessions[k] = 0

\* C24: detectAudioFormat is total and deterministic: for every byte buffer,
\* the empty one and those shorter than 4 bytes included, it returns exactly
\* one of the three classes mp3, wav and s16le, and the same class when it is
\* applied again.
C24_DetectReturnsOneOfThreeClasses ==
    codec.pc # "detect" =>
       /\ codec.sourceFormat \in {"mp3", "wav", "s16le"}
       /\ detectAudioFormat(codec.buffer) = codec.sourceFormat

\* C24 as amended: detectAudioFormat returns one of the four classes mp3, wav,
\* s16le and unknown for every buffer, unknown exactly for the buffers
\* shorter than 4 bytes, and the same class when it is applied again.
C24_DetectReturnsOneOfFourClasses ==
    codec.pc # "detect" =>
       /\ codec.sourceFormat \in {"mp3", "wav", "s16le", "unknown"}
       /\ codec.sourceFormat = "unknown" <=> Len(codec.buffer) < 4
       /\ detectAudioFormat(codec.buffer) = codec.sourceFormat

\* C24 witness: the three bytes "ID3" alone were classified, as unknown.
C24_Witness ==
    /\ codec.pc # "detect"
    /\ codec.buffer = <<73, 68, 51>>
    /\ codec.sourceFormat = "unknown"

\* The signatures, stated on the bytes.
IsID3(b) == Len(b) >= 3 /\ SubSeq(b, 1, 3) = <<73, 68, 51>>
IsFrameSync(b) == Len(b) >= 2 /\ b[1] = 255 /\ b[2] >= 224
IsRIFF(b) == Len(b) >= 4 /\ SubSeq(b, 1, 4) = <<82, 73, 70, 70>>

G711Segment(biased) ==
    CHOOSE e \in 0..7 : Pow2(e + 7) <= biased /\ biased < Pow2(e + 8)

\* The magnitude of s, clipped.
Clipped(s) ==
    LET magnitude == IF s < 0 THEN -s ELSE s
    IN  IF magnitude > CLIP THEN CLIP ELSE magnitude

\* The G.711 mu-law byte of the 16-bit sample s.
G711Encode(s) ==
    LET sign == IF s < 0 THEN 128 ELSE 0
        biased == Clipped(s) + BIAS
        e == G711Segment(biased)
        mantissa == (biased \div Pow2(e + 3)) % 16
    IN  255 - (sign + 16 * e + mantissa)

\* C26: for every 16-bit signed sample s, encodeMuLaw(s) is the byte of the
\* standard G.711 mu-law encoder: sign bit, magnitude clipped to 32635 and
\* biased by 0x84, exponent e in 0..7 with the biased magnitude in
\* [2^(e+7), 2^(e+8)), mantissa (biased >> (e+3)) & 0x0F, and the byte
\* ~(sign | e << 4 | mantissa) & 0xFF.
C26_EncodeIsG711 ==
    mulaw.done => mulaw.ulawbyte = G711Encode(mulaw.sample)

\* The standard G.711 mu-law decoder: the fields of the byte and its value.
G711Fields(byte) ==
    LET x == 255 - byte
    IN  [negative |-> x >= 128, exponent |-> (x \div 16) % 8, mantissa |-> x % 16]

G711Decode(byte) ==
    LET f == G711Fields(byte)
        t == (f.mantissa * 8 + BIAS) * Pow2(f.exponent)
    IN  IF f.negative THEN -(t - BIAS) ELSE t - BIAS

\* C27: decoding encodeMuLaw(s) with the standard decoder yields a value with
\* the sign of s whose distance from s clipped to +-32635 is at most half the
\* quantization step of its segment, 4 << exponent, which is at most 512.
C27_RoundTripWithinHalfStep ==
    mulaw.done =>
       LET s == mulaw.sample
           v == G711Decode(mulaw.ulawbyte)
           half == 4 * Pow2(G711Fields(mulaw.ulawbyte).exponent)
           c == IF s < 0 THEN -Clipped(s) ELSE Clipped(s)
           d == IF v < c THEN c - v ELSE v - c
       IN  /\ s > 0 => v >= 0
           /\ s < 0 => v <= 0
           /\ d <= half
           /\ half <= 512

\* C28: when the wavefile path of convertToUlaw throws for a wav, raw PCM or
\* unknown buffer, ffmpeg is started with the same buffer before any failure
\* is reported; the conversion fails only if ffmpeg fails too (it exits with
\* a code other than 0 or the process reports an error); and a conversion
\* that succeeds on the wavefile path never starts ffmpeg.
C28_FfmpegIsTheFallback ==
    /\ codec.pc = "convert" =>
          \A samples \in PcmSamples :
             LET c1 == convertToUlaw(codec, TRUE, samples)
             IN  /\ c1.result = "none"
                 /\ c1.spawned = 1
                 /\ c1.stdin = codec.buffer
    /\ codec.primary = "threw" =>
          /\ codec.sourceFormat \in {"wav", "s16le", "unknown"}
          /\ codec.spawned = 1
          /\ codec.stdin = codec.buffer
          /\ codec.exit = "0" => codec.result = "resolved"
    /\ codec.result = "rejected" =>
          /\ codec.spawned = 1
          /\ codec.exit \in {"nonzero", "error"}
    /\ codec.primary = "ok" =>
          /\ codec.spawned = 0
          /\ codec.result = "resolved"

\* C28 witness: the wavefile path threw on a RIFF buffer, ffmpeg was started
\* and exited with a code other than 0, and the conversion failed.
C28_Witness ==
    /\ codec.sourceFormat = "wav"
    /\ codec.primary = "threw"
    /\ codec.spawned = 1
    /\ codec.exit = "nonzero"
    /\ codec.result = "rejected"

\* The browser handler's state without the record of the last handler.
BrowserFlow(B) == [B EXCEPT !.last = BrowserRan("any", 0, 0, <<>>)]

\* C29: a failure of the call-record sink never affects the browser flow.  If
\* the insert of logCallStart fails, handleConnection goes on as after a
\* successful insert, but for the call identifier: the session stays as it
\* was created, its recognition stream is opened and the greeting is
\* scheduled.  If the update of logCallEnd fails on close, the close listener
\* goes on as after a successful update: endSession runs and the registry
\* holds no session under the connection's identifier.
C29_CallLogFailureIsHarmless ==
    /\ \A n \in 1..Len(browser.conns) :
          browser.conns[n].phase = "log" =>
             LET o == browser.conns[n].session
                 B0 == browserSetup(browser, n, FALSE)
                 B1 == browserSetup(browser, n, TRUE)
             IN  /\ B0.sessions = browser.sessions
                 /\ B0.objs[o].ended = browser.objs[o].ended
                 /\ B0.objs[o].sttStream = Len(B0.streams)
                 /\ Len(B0.streams) = Len(browser.streams) + 1
                 /\ B0.streams[Len(B0.streams)].listening
                 /\ n \in B0.timers
                 /\ B0.conns[n].ws = browser.conns[n].ws
                 /\ B0.conns[n].phase = "up"
                 /\ BrowserFlow(B0) =
                       BrowserFlow([B1 EXCEPT !.objs = [@ EXCEPT ![o].callId = FALSE]])
    /\ \A n \in 1..Len(browser.conns) :
          browser.conns[n].closing =>
             LET B0 == browserClosed(browser, n, FALSE)
             IN  /\ B0.sessions[browser.conns[n].id] = 0
                 /\ browser.sessions[browser.conns[n].id] # 0 =>
                       /\ B0.last.ended = browser.sessions[browser.conns[n].id]
                       /\ B0.objs[B0.last.ended].ended
                 /\ BrowserFlow(B0) = BrowserFlow(browserClosed(browser, n, TRUE))

\* C29 witness: with a database configured, the insert of logCallStart failed
\* and the set-up went on: the session is registered, its recognition stream
\* listens and the greeting timer is pending.
C29_Witness ==
    /\ env.database
    /\ browser.last.op = "setup"
    /\ ~browser.last.logged
    /\ ~browser.objs[browser.last.session].callId
    /\ browser.sessions[browser.objs[browser.last.session].id] = browser.last.session
    /\ browser.streams[browser.objs[browser.last.session].sttStream].listening
    /\ browser.last.conn \in browser.timers

\* The other case of C29: the update of logCallEnd failed on close and
\* endSession removed the session.
C29_WitnessClose ==
    /\ browser.last.op = "closed"
    /\ ~browser.last.logged
    /\ browser.last.ended # 0
    /\ \A id \in BrowserIds : browser.sessions[id] = 0

\* The language-model calls of session object o outstanding in the bag of
\* tasks T.
LLMCallsOf(T, o) == { t \in BagToSet(T) : t.await = "llm" /\ t.session = o }

Registered(o) == ~objs[o].ended /\ sessions[objs[o].callId] = o

\* The live sessions other than o, with another call identifier, when o is a
\* live session.
OtherSessions(o) ==
    { p \in 1..Len(objs) :
        /\ o \in 1..Len(objs) /\ p # o
        /\ Registered(o) /\ Registered(p)
        /\ objs[p].callId # objs[o].callId }

\* The session that opened recognition stream k (0: it is gone).
StreamOwner(k) ==
    IF \E o \in 1..Len(objs) : objs[o].sttStream = k
    THEN CHOOSE o \in 1..Len(objs) : objs[o].sttStream = k
    ELSE 0

\* Handling the event that leads to W1 leaves session p as it is.
Untouched(W1, p) ==
    /\ W1.objs[p] = objs[p]
    /\ W1.sessions[objs[p].callId] = p

\* C31: sessions are isolated: for two live sessions with distinct call
\* identifiers, handling a recognizer event, a timer or a reply completion of
\* the one leaves the context, flags, timer, buffers and registry entry of
\* the other unchanged.
C31_SessionsIsolated ==
    /\ \A k \in 1..Len(stt) :
          stt[k].listening =>
             \A p \in OtherSessions(StreamOwner(k)) :
                /\ \A d \in TranscriptData : Untouched(onTranscript(World, k, d), p)
                /\ Untouched(onVoiceActivity(World, k), p)
    /\ \A t \in silenceTimers : \A p \in OtherSessions(t.owner) :
          Untouched(onSilenceTimer(World, t), p)
    /\ \A t \in greetTimers : \A p \in OtherSessions(t.owner) :
          Untouched(onGreetingTimer(World, t), p)
    /\ \A t \in BagToSet(tasks) : \A p \in OtherSessions(t.session) :
          IF t.await = "llm"
          THEN \A r \in LLMResults : Untouched(onLLMReturn(World, t, callLLM(r)), p)
          ELSE \A audio \in AudioBytes \cup {-1} :
                  Untouched(onSynthReturn(World, t, audio, FALSE), p)

\* C32: in the browser handler an interim transcript longer than the
\* significance threshold that arrives while the agent's audio is outbound
\* (isSpeaking) cancels the reply at once: isSpeaking becomes false and a
\* stop-audio message is sent to the client.
C32_BrowserInterimInterrupts ==
    \A k \in 1..Len(browser.streams), d \in TranscriptData :
       LET n == browser.streams[k].conn
           o == browser.conns[n].session
           B1 == browserOnTranscript(browser, k, d, FALSE)
       IN  ( /\ browser.streams[k].listening
             /\ browser.conns[n].ws = "open"
             /\ browser.objs[o].isSpeaking
             /\ ~d.is_final /\ ~IsBlank(d)
             /\ Len(d.transcript) > SignificanceThreshold ) =>
              /\ ~B1.objs[o].isSpeaking
              /\ \E i \in 1..Len(B1.last.out) : B1.last.out[i].event = "stop-audio"

\* C33: whenever isAISpeaking of a session is true it is eventually false
\* again, given that the synthesis call returns and the peer echoes every
\* completion mark it is sent; also when the stream identifier is missing and
\* the audio is queued instead of framed.
C33_SpeakingEndsEventually ==
    \A o \in 1..MaxSessions :
       (Len(objs) >= o /\ objs[o].isAISpeaking)
          ~> (Len(objs) >= o /\ ~objs[o].isAISpeaking)

\* C34: a completion mark echoed by the peer ends only the reply it belongs
\* to.  When the mark of an earlier reply or greeting arrives while a later
\* reply of the session is being synthesized, or after a later reply was
\* sent whose own mark is still to come, isAISpeaking stays true and the
\* later reply's buffered chunks are kept.
C34_MarkEndsOnlyItsReply ==
    \A n \in 1..Len(conns) :
       LET o == conns[n].session
           W1 == onMark(World, n)
       IN  (conns[n].ws = "open" /\ conns[n].marks > 0 /\ o # 0) =>
              /\ ( /\ objs[o].isAISpeaking
                    /\ \E t \in BagToSet(tasks) :
                          t.await = "synth" /\ t.session = o ) =>
                    W1.objs[o].isAISpeaking
              /\ (objs[o].isAISpeaking /\ conns[n].marks > 1) =>
                    /\ W1.objs[o].isAISpeaking
                    /\ W1.objs[o].currentAudioChunks # <<>>

\* C35: in the browser handler isSpeaking is true from the sending of an
\* audio message until its estimated duration has passed, unless a final
\* transcript interrupted it: when the expiry timer of an earlier audio
\* message fires while a later one, not interrupted, is still within its
\* duration (its own timer is pending too), isSpeaking stays true.
C35_EarlierExpiryKeepsSpeaking ==
    \A o \in 1..Len(browser.objs) :
       (browser.objs[o].isSpeaking /\ browser.objs[o].speakTimers > 1) =>
          browserOnSpeakingTimer(browser, o).objs[o].isSpeaking

\* What a receiver obtains from one payload taken on its own
\* (Buffer.from(payload, "base64")): every four characters give three bytes,
\* the padding character 64 gives none, and a trailing group of two or three
\* characters gives the one or two bytes its bits fill.
Base64Decode(chars) ==
    LET data == SelectSeq(chars, LAMBDA c : c # 64)
        m == Len(data)
        n == 3 * (m \div 4) + (CASE m % 4 = 2 -> 1 [] m % 4 = 3 -> 2 [] OTHER -> 0)
        sextet(j) == IF j <= m THEN data[j] ELSE 0
        byte(i) ==
            LET g == (i - 1) \div 3
                c1 == sextet(4 * g + 1)
                c2 == sextet(4 * g + 2)
                c3 == sextet(4 * g + 3)
                c4 == sextet(4 * g + 4)
            IN  CASE (i - 1) % 3 = 0 -> c1 * 4 + c2 \div 16
                  [] (i - 1) % 3 = 1 -> (c2 % 16) * 16 + c3 \div 4
                  [] OTHER -> (c3 % 4) * 64 + c4
    IN  [i \in 1..n |-> byte(i)]

RECURSIVE DecodedFrames(_, _)
DecodedFrames(frames, upto) ==
    IF upto = 0 THEN <<>>
    ELSE DecodedFrames(frames, upto - 1) \o Base64Decode(frames[upto].payload)

\* C36: every media frame sendAudioToTwilio emits is on its own the base64
\* encoding of a whole number of bytes: the payload of every frame but the
\* last is a multiple of 4 characters long, and decoding the frames one by one
\* and concatenating the results gives the original buffer.
C36_FramesDecodeOnTheirOwn ==
    framer.done =>
       /\ \A i \in 1..(Len(framer.out) - 1) : Len(framer.out[i].payload) % 4 = 0
       /\ DecodedFrames(framer.out, Len(framer.out)) = framer.buffer

\* The provider name the call selects: options.provider when one is given,
\* else TTS_PROVIDER when one is given, else ElevenLabs.
SelectedName ==
    IF tts.options.provider \notin {NoProvider, ""} THEN tts.options.provider
    ELSE IF tts.TTS_PROVIDER \notin {NoProvider, ""} THEN tts.TTS_PROVIDER
    ELSE "elevenlabs"

\* C37: generateTTS invokes exactly one provider per call: Sarvam exactly when
\* the selected name (options.provider, else TTS_PROVIDER, else ElevenLabs) is
\* exactly "sarvam", ElevenLabs for every other value; when the provider
\* fails the error is propagated and the other provider is not called.
C37_OneProviderPerCall ==
    tts.pc # "idle" =>
       /\ tts.calls = << IF SelectedName = "sarvam" THEN "sarvam" ELSE "elevenlabs" >>
       /\ tts.outcome = "fail" => (tts.pc = "done" /\ tts.result = "error")
       /\ tts.outcome = "ok" => (tts.pc = "done" /\ tts.result = "audio")

C37_Witness ==
    /\ tts.options.provider = NoProvider
    /\ tts.TTS_PROVIDER = "sarvam"
    /\ tts.calls = <<"sarvam">>
    /\ tts.outcome = "fail"
    /\ tts.result = "error"

\* C38: when processCampaign stopped early, because the campaign was paused
\* while it ran or because the balance check before a call failed, the
\* persisted status is still 'paused' when processCampaign has finished;
\* 'completed' is written only after the loop ran through all its contacts.
C38_PausedStaysPaused ==
    \A run \in BagToSet(campaign.runs) :
       run.pc = "complete" =>
          LET K1 == runCompleteReturns(campaign, run)
          IN  /\ run.stop \in {"paused", "balance"} => K1.status = "paused"
              /\ K1.status = "completed" => run.stop = "none"

\* C39: however the startCampaign calls for one campaign interleave,
\* processing is launched only by a call that moved the campaign from 'draft'
\* to 'running', at most one processCampaign loop is active at a time, and
\* no contact is dialed more than once.
C39_OneLoopPerCampaign ==
    /\ \A start \in BagToSet(campaign.starts) :
          start.pc = "update" =>
             LET K1 == startUpdateReturns(campaign, start)
             IN  BagCardinality(K1.runs) > BagCardinality(campaign.runs) =>
                    campaign.status = "draft"
    /\ BagCardinality(campaign.runs) <= 1
    /\ \A c \in Contacts : campaign.contacts[c].dialed <= 1

\* C40: no campaign call goes out without a passed balance check:
\* startCampaign launches processing only after an allowed 1.00 check; in
\* processCampaign every makeCall directly follows an allowed 0.10 check made
\* for that contact; the first failed check pauses the campaign and the run
\* makes no further call.
C40_NoCallWithoutBalanceCheck ==
    /\ \A start \in BagToSet(campaign.starts) :
          /\ start.pc = "update" => start.allowed
          /\ \A allowed \in BOOLEAN :
                LET K1 == startBalanceReturns(campaign, start, allowed)
                IN  (start.pc = "balance" /\ ~allowed) =>
                       /\ K1.runs = campaign.runs
                       /\ \A x \in BagToSet(K1.starts) : x.pc = "update" => x.allowed
    /\ \A run \in BagToSet(campaign.runs) :
          /\ run.pc = "calling" =>
                run.check = [contact |-> run.contacts[run.i], allowed |-> TRUE]
          /\ run.stop = "balance" =>
                /\ run.pc \in {"pausing", "complete"}
                /\ run.check = [contact |-> run.contacts[run.i], allowed |-> FALSE]
          /\ run.pc = "pausing" =>
                LET K1 == runPauseReturns(campaign, run)
                IN  K1.status = "paused" /\ K1.activeCampaigns # "running"

C40_Witness ==
    \E run \in BagToSet(campaign.runs) :
       /\ run.stop = "balance"
       /\ run.pc = "complete"
       /\ run.contacts = <<1, 2>>
       /\ run.i = 2
       /\ campaign.contacts[1].dialed = 1
       /\ campaign.contacts[2].dialed = 0
       /\ campaign.status = "paused"
====
